---- MODULE Spec2Model ----
(***************************************************************************)
(* Interaction and reload state machine of the ANGL 3D product viewer.     *)
(*                                                                         *)
(* The viewer is single-threaded: every event handler and every loader     *)
(* callback (with the promise continuations it schedules as microtasks)    *)
(* runs to completion before the next one starts, so each is one action.   *)
(*                                                                         *)
(* Scene graphs come from binary assets that are not part of the sources;  *)
(* the two model files of MODEL_PATHS are represented by two small trees   *)
(* whose node names follow the naming conventions the code tests for.      *)
(* A node name is a sequence of tokens and String.includes is containment  *)
(* of a contiguous token sub-sequence.  Every mesh owns its material (the  *)
(* load callback gives each standard-material mesh a material of its own), *)
(* so the emissive tint is recorded per mesh.                              *)
(* Angles are in degrees, elevations in hundredths of a radian, lengths in *)
(* thousandths of a scene unit.  The context position and explodeT are     *)
(* fixed-point numbers (PositionScale and ExplodeScale units per 1.0); a   *)
(* smoothing step rounds to the nearest grid point.                        *)
(***************************************************************************)
EXTENDS Integers, Sequences, FiniteSets, TLC

\* ------------------------------------------------------------------ bounds
\* Number of model loads that may be in flight at the same time.
MaxInFlight == 2

\* Number of meshes a pointer ray passes through.
MaxRayLen == 1

\* Wheel deltas are resolved to 1/PixelFraction of a pixel.
PixelFraction == 5

\* Single-unit wheel steps are explored within MaxFine units of a preset.
MaxFine == 3

\* explodeT is kept on a grid of 1/ExplodeScale.
ExplodeScale == 1000

\* Number of nodes of the scenes the annotation resolver is applied to.
MaxProbeNodes == 3

\* Smoothed camera values are kept in units of 1/CamScale of a degree
\* (azimuth, elevation) or of the unit of their target (frustum size, orbit
\* height).
CamScale == 100

\* Box centres handed to the explode-direction builder lie on a grid of
\* CoordStep hundredths of a scene unit, at most MaxCoord steps from the
\* origin on each axis.
MaxCoord == 2

CoordStep == 4

\* Number of frames of a run that counts its frames.
MaxFrames == 2

\* ----------------------------------------------------------------- scenes
\* Nodes are numbered in traversal (pre-order) order; parent 0 = no parent.
SceneFull ==
  [ parent |-> <<0, 1, 2, 1, 4, 4, 1>>,
    name   |-> << <<"ASM">>,
                  <<"Solid2">>,
                  <<"Solid2", "_1">>,
                  <<"Solid2", ".002">>,
                  <<"Solid2", ".001">>,
                  <<"DDR5 module">>,
                  <<"RTX 5090">> >>,
    isMesh |-> <<FALSE, FALSE, TRUE, FALSE, TRUE, TRUE, TRUE>>,
    height |-> 950,
    centerY |-> 475 ]

SceneOptimized ==
  [ parent |-> <<0, 1, 1, 1, 1>>,
    name   |-> << <<"ASM">>,
                  <<"Solid2">>,
                  <<"Solid2", ".002">>,
                  <<"Solid2", ".003">>,
                  <<"RTX 5090", " fan">> >>,
    isMesh |-> <<FALSE, TRUE, TRUE, TRUE, TRUE>>,
    height |-> 900,
    centerY |-> 450 ]

MODEL_PATHS == {"optimized", "full"}

SceneOf(key) == IF key = "full" THEN SceneFull ELSE SceneOptimized

\* Every load parses a fresh gltf.scene: a model is [id, key], the id
\* standing for the object's identity (the program only compares identities,
\* so a load gets the least id no live reference uses); id 0 is null.
NullModel == [id |-> 0, key |-> "none"]

NodeIdx(m) == IF m.id = 0 THEN {} ELSE 1..Len(SceneOf(m.key).parent)

Node(m, i) == [model |-> m, n |-> i]

NodesOf(m) == {Node(m, i) : i \in NodeIdx(m)}

MeshIdx(m) == {i \in NodeIdx(m) : SceneOf(m.key).isMesh[i]}

ParentIdx(m, i) == SceneOf(m.key).parent[i]

NameOf(m, i) == SceneOf(m.key).name[i]

\* i is d or an ancestor of d (Object3D.traverse visits d from i).
RECURSIVE IsSelfOrAncestorIn(_, _, _)
IsSelfOrAncestorIn(parent, i, d) ==
  IF d = 0 THEN FALSE
  ELSE IF d = i THEN TRUE
  ELSE IsSelfOrAncestorIn(parent, i, parent[d])

\* Per model file: the meshes obj.traverse() visits from node i.
MeshesBelowIn(sc) ==
  [i \in 1..Len(sc.parent) |->
     {d \in 1..Len(sc.parent) : sc.isMesh[d] /\ IsSelfOrAncestorIn(sc.parent, i, d)}]

MeshesBelowFull == MeshesBelowIn(SceneFull)

MeshesBelowOptimized == MeshesBelowIn(SceneOptimized)

MeshesBelow(m, i) ==
  IF m.key = "full" THEN MeshesBelowFull[i] ELSE MeshesBelowOptimized[i]

\* String.prototype.includes on token sequences.
Includes(name, sub) ==
  \E k \in 0..(Len(name) - Len(sub)) : SubSeq(name, k + 1, k + Len(sub)) = sub

\* Sequence of the elements of a set of node indices, in traversal order.
RECURSIVE InOrder(_)
InOrder(S) ==
  IF S = {} THEN <<>>
  ELSE LET lo == CHOOSE x \in S : \A y \in S : x <= y
       IN <<lo>> \o InOrder(S \ {lo})

Range(s) == {s[k] : k \in 1..Len(s)}


\* ------------------------------------------------------------------ state
VARIABLES
  pc,               \* position of init(): "model", "env", "tex", "run"
  initFailed,       \* init() rejected and its catch handler ran
  statusText,       \* content of the #loading-text status element
  inFlight,         \* loads started and not yet settled, in request order
  currentModel,     \* main module's currentModel
  guiModel,         \* the configuration panel's own currentModel
  guiSetting,       \* settings.model of the configuration panel
  visible,          \* Object3D.visible of the installed model's nodes
  emissive,         \* TRUE iff a mesh's material carries the highlight tint
  toggleMap,        \* {individuals, groupMembers}
  explodeParts,     \* objects of the explode parts
  hotspotInstances, \* sequence of {data, object, open, shown, hidden}: shown is
                    \* the card's 'visible' class, hidden the marker's opacity 0
  hoveredGroup,     \* {kind, objs}; kind "null" is null
  viewIndex, targetAzimuth, targetElevation,
  zoomed, targetFrustum, targetOrbitY,
  exploded,
  guiView,          \* camSettings.view of the configuration panel
  scrollPosition,   \* context position, in units of 1/PositionScale context
  wipeDirection,    \* wipe mode 0..7 used by the composite
  guiWipe,          \* transSettings.wipe of the configuration panel (as a mode)
  explodeT,         \* explode progress, in units of 1/ExplodeScale
  partOffset,       \* displacement of each installed node along its explode
                    \* direction, in thousandths of a scene unit
  cam,              \* smoothed camera values {az, el, frustum, orbitY}, in
                    \* units of 1/CamScale of the unit of their targets
  cameraType,       \* "Orthographic" or "Perspective"
  frames,           \* number of frames counted by a bounded run (history)
  cyc,              \* current run of view-cycling steps in one direction (history)
  probe,            \* a scene's node names and the annotations built for them
  ev                \* the handler that ran last (history)

loadVars  == <<pc, initFailed, statusText, inFlight, guiSetting>>
modelVars == <<currentModel, guiModel, toggleMap, explodeParts>>
partVars  == <<visible, emissive, hoveredGroup>>
viewVars  == <<viewIndex, targetAzimuth, targetElevation>>
zoomVars  == <<zoomed, targetFrustum, targetOrbitY>>
ctxVars   == <<scrollPosition, wipeDirection, guiWipe>>
animVars  == <<explodeT, partOffset>>
vars == <<pc, initFailed, statusText, inFlight, guiSetting,
          currentModel, guiModel, toggleMap, explodeParts,
          visible, emissive, hoveredGroup, hotspotInstances,
          viewIndex, targetAzimuth, targetElevation,
          zoomed, targetFrustum, targetOrbitY, exploded,
          guiView, scrollPosition, wipeDirection, guiWipe,
          explodeT, partOffset, cam, cameraType, frames, cyc, probe, ev>>

\* ------------------------------------------------------- program constants
HOTSPOTS == << [match |-> <<"RTX 5090">>, title |-> "GPU"],
               [match |-> <<"Noctua-200mm">>, title |-> "FAN"],
               [match |-> <<"DDR5 module">>, title |-> "MEMORY"] >>

viewList == <<"Front", "Right", "Rear", "Left", "Isometric">>

viewAngles == [Front |-> 0, Right |-> -60, Rear |-> 180, Left |-> 60, Isometric |-> 45]

ISO_ELEVATION == 55
DEFAULT_ELEVATION == 15
FRUSTUM_DEFAULT == 2200

\* modelHeight / 0.95 of the model init() loaded first (always 'full')
FRUSTUM_ZOOMED_CALC == (SceneFull.height * 100) \div 95

defaultOrbitTargetY == SceneFull.centerY
zoomedOrbitTargetY == SceneFull.centerY

\* -------------------------------------------------- part grouping resolver
\* buildToggleMap(root): every node whose name contains "Solid2", in
\* traversal order; exact "Solid2" or a name containing ".001" is an
\* individual, the rest are group members.
allSolid2(m) == {i \in NodeIdx(m) : Includes(NameOf(m, i), <<"Solid2">>)}

IsIndividualName(name) == name = <<"Solid2">> \/ Includes(name, <<".001">>)

\* Variant that classifies only the marked nodes not nested under another
\* marked node, as the comment at lines 535-536 describes.
buildToggleMapTopLevel(m) ==
  LET top == {i \in allSolid2(m) :
                ~\E a \in allSolid2(m) \ {i} :
                    IsSelfOrAncestorIn(SceneOf(m.key).parent, a, i)}
      ind == {i \in top : IsIndividualName(NameOf(m, i))}
      grp == top \ ind
      seqI == InOrder(ind)
      seqG == InOrder(grp)
  IN [ individuals  |-> [k \in 1..Len(seqI) |-> Node(m, seqI[k])],
       groupMembers |-> [k \in 1..Len(seqG) |-> Node(m, seqG[k])] ]

buildToggleMap(m) ==
  LET ind == {i \in allSolid2(m) : IsIndividualName(NameOf(m, i))}
      grp == allSolid2(m) \ ind
      seqI == InOrder(ind)
      seqG == InOrder(grp)
  IN [ individuals  |-> [k \in 1..Len(seqI) |-> Node(m, seqI[k])],
       groupMembers |-> [k \in 1..Len(seqG) |-> Node(m, seqG[k])] ]

EmptyToggleMap == [individuals |-> <<>>, groupMembers |-> <<>>]

\* buildExplodeParts(root): one part per mesh (directions are not needed
\* for the interaction state machine).
buildExplodeParts(m) == {Node(m, i) : i \in MeshIdx(m)}

\* initHotspots(root): exact name match first, includes() as fallback,
\* first match in traversal order; unresolved descriptors are skipped.
\* names is the scene's node names in traversal order; the result is <<>>
\* or <<index of the target>>.
\* Variant whose single pass accepts an exact or a containing name.
HotspotTargetFirstContaining(names, hs) ==
  LET incl == {i \in 1..Len(names) : Includes(names[i], hs.match)}
  IN IF incl # {} THEN <<InOrder(incl)[1]>> ELSE <<>>

HotspotTargetIn(names, hs) ==
  LET exact == {i \in 1..Len(names) : names[i] = hs.match}
      incl  == {i \in 1..Len(names) : names[i] # <<>> /\ Includes(names[i], hs.match)}
  IN IF exact # {} THEN <<InOrder(exact)[1]>>
     ELSE IF incl # {} THEN <<InOrder(incl)[1]>>
     ELSE <<>>

NamesOf(m) == IF m.id = 0 THEN <<>> ELSE SceneOf(m.key).name

HotspotTarget(m, hs) == HotspotTargetIn(NamesOf(m), hs)

\* Variant that pushes an instance with a null object for an unresolved
\* descriptor (n = 0).
RECURSIVE initHotspotsInKeepsUnresolved(_, _)
initHotspotsInKeepsUnresolved(names, k) ==
  IF k > Len(HOTSPOTS) THEN <<>>
  ELSE LET t == HotspotTargetIn(names, HOTSPOTS[k])
       IN << [data |-> k, n |-> IF t = <<>> THEN 0 ELSE t[1], open |-> FALSE] >>
          \o initHotspotsInKeepsUnresolved(names, k + 1)

\* HOTSPOTS.forEach from descriptor k on: [data, n (target index), open]
RECURSIVE initHotspotsIn(_, _)
initHotspotsIn(names, k) ==
  IF k > Len(HOTSPOTS) THEN <<>>
  ELSE LET t == HotspotTargetIn(names, HOTSPOTS[k])
       IN (IF t = <<>> THEN <<>>
           ELSE << [data |-> k, n |-> t[1], open |-> FALSE] >>)
          \o initHotspotsIn(names, k + 1)

initHotspotsFrom(m, k) ==
  LET r == initHotspotsIn(NamesOf(m), k)
  IN [j \in 1..Len(r) |->
        [data |-> r[j].data, object |-> Node(m, r[j].n), open |-> r[j].open,
         shown |-> FALSE, hidden |-> FALSE]]

initHotspots(m) == initHotspotsFrom(m, 1)

\* ------------------------------------------------ pointer interaction engine
NullGroup == [kind |-> "null", objs |-> <<>>]

allToggleable == toggleMap.individuals \o toggleMap.groupMembers

\* Object3D.visible of a node (nodes of removed models keep their last flag;
\* no handler reads one, the value given here is never used by the program).
VisibleOf(o) == IF o.model = currentModel THEN visible[o.n] ELSE TRUE

\* collectMeshes(objects): every mesh at or below one of the objects;
\* traverse() does not look at visibility.  The result is given as indices
\* into the installed model: a ray meets no mesh of a removed model.
collectMeshes(objects) ==
  UNION {MeshesBelow(o.model, o.n) : o \in {p \in Range(objects) : p.model = currentModel}}

\* raycaster.intersectObjects(meshes, false): the meshes of the list the
\* ray passes through, nearest first.  A ray is the sequence of meshes of
\* the installed model it passes through, nearest first; Mesh.raycast does
\* not test the visible flag.
intersectObjects(ray, meshes) == SelectSeq(ray, LAMBDA i : i \in meshes)

\* findOwner(mesh, candidates): first candidate on the parent chain.
RECURSIVE findOwnerFrom(_, _, _)
findOwnerFrom(m, i, candidates) ==
  IF i = 0 THEN <<>>
  ELSE IF Node(m, i) \in Range(candidates) THEN <<Node(m, i)>>
  ELSE findOwnerFrom(m, ParentIdx(m, i), candidates)

findOwner(mesh, candidates) == findOwnerFrom(mesh.model, mesh.n, candidates)

\* Variant in which the first toggle unit on the parent chain decides.
getToggleGroupNearest(mesh) ==
  LET owner == findOwner(mesh, allToggleable)
  IN IF owner = <<>> THEN NullGroup
     ELSE IF owner[1] \in Range(toggleMap.individuals)
     THEN [kind |-> "indiv", objs |-> owner]
     ELSE [kind |-> "group", objs |-> toggleMap.groupMembers]

\* getToggleGroup(mesh): [indivOwner] (a fresh array), else the
\* toggleMap.groupMembers array itself, else null.
getToggleGroup(mesh) ==
  LET indivOwner == findOwner(mesh, toggleMap.individuals)
      groupOwner == findOwner(mesh, toggleMap.groupMembers)
  IN IF indivOwner # <<>> THEN [kind |-> "indiv", objs |-> indivOwner]
     ELSE IF groupOwner # <<>> THEN [kind |-> "group", objs |-> toggleMap.groupMembers]
     ELSE NullGroup

\* newGroup !== hoveredGroup compares array identity: [indivOwner] is a new
\* array on every call, toggleMap.groupMembers is one array per build.
SameArray(a, b) ==
  \/ a.kind = "null" /\ b.kind = "null"
  \/ a.kind = "group" /\ b.kind = "group" /\ a.objs = b.objs

\* setGroupEmissive(objects, color) on the installed model's meshes.
setGroupEmissive(em, objects, color) ==
  [i \in DOMAIN em |->
     IF i \in collectMeshes(objects) THEN color ELSE em[i]]

\* setGroupEmissive reaches materials of a model that was removed and disposed.
TouchesStale(objects) == \E o \in Range(objects) : o.model # currentModel

\* Whether the ray passes through any mesh of a toggle unit at all.
RayMisses(ray) == intersectObjects(ray, collectMeshes(allToggleable)) = <<>>

\* Variant of the mousemove handler body that does not reset the previous
\* group's emissive colour.
HoverUpdateNoClear(ray) ==
  LET shown  == SelectSeq(allToggleable, LAMBDA p : VisibleOf(p))
      hits   == intersectObjects(ray, collectMeshes(shown))
      newGroup == IF hits # <<>> THEN getToggleGroup(Node(currentModel, hits[1]))
                  ELSE NullGroup
      lit     == IF newGroup.kind # "null"
                 THEN setGroupEmissive(emissive, newGroup.objs, TRUE)
                 ELSE emissive
  IN IF ~SameArray(newGroup, hoveredGroup)
     THEN [hov |-> newGroup, em |-> lit, stale |-> FALSE, res |-> newGroup.kind]
     ELSE [hov |-> hoveredGroup, em |-> emissive, stale |-> FALSE,
           res |-> newGroup.kind]

\* mousemove handler body: [hov, em, stale, res]; stale tells that the
\* handler wrote materials of a removed, disposed model.
HoverUpdate(ray) ==
  LET shown  == SelectSeq(allToggleable, LAMBDA p : VisibleOf(p))
      meshes == collectMeshes(shown)
      hits   == intersectObjects(ray, meshes)
      newGroup == IF hits # <<>> THEN getToggleGroup(Node(currentModel, hits[1]))
                  ELSE NullGroup
      cleared == IF hoveredGroup.kind # "null"
                 THEN setGroupEmissive(emissive, hoveredGroup.objs, FALSE)
                 ELSE emissive
      lit     == IF newGroup.kind # "null"
                 THEN setGroupEmissive(cleared, newGroup.objs, TRUE)
                 ELSE cleared
  IN IF ~SameArray(newGroup, hoveredGroup)
     THEN [hov |-> newGroup, em |-> lit,
           stale |-> TouchesStale(hoveredGroup.objs), res |-> newGroup.kind]
     ELSE [hov |-> hoveredGroup, em |-> emissive, stale |-> FALSE,
           res |-> newGroup.kind]

\* "Temporarily make hidden parts visible for raycasting"
ForceVisible(vis, parts) ==
  [i \in DOMAIN vis |-> IF Node(currentModel, i) \in Range(parts) THEN TRUE ELSE vis[i]]

\* Variant without the restore loop.
RestoreNothing(vis, wasHidden) == vis

\* Variant that restores the first forced part only.
RestoreFirstOnly(vis, wasHidden) ==
  IF wasHidden = <<>> THEN vis ELSE [vis EXCEPT ![wasHidden[1].n] = FALSE]

\* "Restore hidden state"
RestoreHidden(vis, wasHidden) ==
  [i \in DOMAIN vis |-> IF Node(currentModel, i) \in Range(wasHidden) THEN FALSE ELSE vis[i]]

\* Variant that hides instead of flipping.
HideIndividual(vis, owner) == [vis EXCEPT ![owner.n] = FALSE]

\* Variant that gives the new flag to every node below the owner as well.
FlipIndividualSubtree(vis, owner) ==
  [i \in DOMAIN vis |->
     IF IsSelfOrAncestorIn(SceneOf(currentModel.key).parent, owner.n, i)
     THEN ~vis[owner.n] ELSE vis[i]]

\* indivOwner.visible = !indivOwner.visible
FlipIndividual(vis, owner) == [vis EXCEPT ![owner.n] = ~vis[owner.n]]

\* Variant that flips the hit member only.
FlipGroupOwnerOnly(vis, groupOwner) == [vis EXCEPT ![groupOwner.n] = ~vis[groupOwner.n]]

\* newVis = !groupOwner.visible; every group member gets newVis
FlipGroup(vis, groupOwner) ==
  LET newVis == ~vis[groupOwner.n]
  IN [i \in DOMAIN vis |->
        IF Node(currentModel, i) \in Range(toggleMap.groupMembers) THEN newVis ELSE vis[i]]

\* Variant that resets the tint and keeps hoveredGroup.
ClearHighlightKeepsGroup ==
  IF hoveredGroup.kind # "null"
  THEN [hov |-> hoveredGroup,
        em |-> setGroupEmissive(emissive, hoveredGroup.objs, FALSE),
        stale |-> TouchesStale(hoveredGroup.objs)]
  ELSE [hov |-> hoveredGroup, em |-> emissive, stale |-> FALSE]

\* "Clear highlight": [hov, em, stale]
ClearHighlight ==
  IF hoveredGroup.kind # "null"
  THEN [hov |-> NullGroup,
        em |-> setGroupEmissive(emissive, hoveredGroup.objs, FALSE),
        stale |-> TouchesStale(hoveredGroup.objs)]
  ELSE [hov |-> hoveredGroup, em |-> emissive, stale |-> FALSE]

\* tryTogglePart(event): [handled, vis, hov, em, stale, res, owner]
tryTogglePart(ray) ==
  LET wasHidden == SelectSeq(allToggleable, LAMBDA p : ~VisibleOf(p))
      forced    == ForceVisible(visible, wasHidden)
      meshes    == collectMeshes(allToggleable)
      hits      == intersectObjects(ray, meshes)
      restored  == RestoreHidden(forced, wasHidden)
      hitMesh    == Node(currentModel, hits[1])
      indivOwner == findOwner(hitMesh, toggleMap.individuals)
      groupOwner == findOwner(hitMesh, toggleMap.groupMembers)
      clr        == ClearHighlight
      miss == [handled |-> FALSE, vis |-> restored, hov |-> hoveredGroup,
               em |-> emissive, stale |-> FALSE, res |-> "none", owner |-> <<>>]
  IN IF hits = <<>> THEN miss
     ELSE IF indivOwner # <<>>
     THEN [handled |-> TRUE, vis |-> FlipIndividual(restored, indivOwner[1]),
           hov |-> clr.hov, em |-> clr.em, stale |-> clr.stale,
           res |-> "indiv", owner |-> indivOwner]
     ELSE IF groupOwner # <<>>
     THEN [handled |-> TRUE, vis |-> FlipGroup(restored, groupOwner[1]),
           hov |-> clr.hov, em |-> clr.em, stale |-> clr.stale,
           res |-> "group", owner |-> groupOwner]
     ELSE miss

\* ------------------------------------------------------------ view presets
\* Variant that raises the elevation for Isometric and never lowers it.
setViewKeepsElevation(name) ==
  IF name \in DOMAIN viewAngles
  THEN [idx |-> (CHOOSE k \in 1..Len(viewList) : viewList[k] = name) - 1,
        az  |-> viewAngles[name],
        el  |-> IF name = "Isometric" THEN ISO_ELEVATION ELSE targetElevation]
  ELSE [idx |-> viewIndex, az |-> targetAzimuth, el |-> targetElevation]

\* Variant that does not record the preset's index.
setViewNoIndex(name) ==
  IF name \in DOMAIN viewAngles
  THEN [idx |-> viewIndex,
        az  |-> viewAngles[name],
        el  |-> IF name = "Isometric" THEN ISO_ELEVATION ELSE DEFAULT_ELEVATION]
  ELSE [idx |-> viewIndex, az |-> targetAzimuth, el |-> targetElevation]

\* setView(name): [idx, az, el]; an unknown name changes nothing.
setView(name) ==
  IF name \in DOMAIN viewAngles
  THEN [idx |-> (CHOOSE k \in 1..Len(viewList) : viewList[k] = name) - 1,
        az  |-> viewAngles[name],
        el  |-> IF name = "Isometric" THEN ISO_ELEVATION ELSE DEFAULT_ELEVATION]
  ELSE [idx |-> viewIndex, az |-> targetAzimuth, el |-> targetElevation]

\* viewIndex = (viewIndex + dir + length) % length; setView(viewList[viewIndex])
cycleView(dir) == setView(viewList[((viewIndex + dir + Len(viewList)) % Len(viewList)) + 1])

KeepView == [idx |-> viewIndex, az |-> targetAzimuth, el |-> targetElevation]

\* Variant without the early return.
ViewAfterClickAlways(handled, dir) == cycleView(dir)

\* Variant in which both buttons advance the view.
ViewAfterClickForward(handled, dir) == IF handled THEN KeepView ELSE cycleView(1)

\* click / contextmenu: "if (tryTogglePart(e)) return;" then cycle the view
ViewAfterClick(handled, dir) == IF handled THEN KeepView ELSE cycleView(dir)

\* Variant that picks the targets by the flag before the flip.
toggleZoomStale ==
  [zoomed  |-> ~zoomed,
   frustum |-> IF zoomed THEN FRUSTUM_ZOOMED_CALC ELSE FRUSTUM_DEFAULT,
   orbitY  |-> IF zoomed THEN zoomedOrbitTargetY ELSE defaultOrbitTargetY]

\* toggleZoom(): [zoomed, frustum, orbitY]
toggleZoom ==
  [zoomed  |-> ~zoomed,
   frustum |-> IF ~zoomed THEN FRUSTUM_ZOOMED_CALC ELSE FRUSTUM_DEFAULT,
   orbitY  |-> IF ~zoomed THEN zoomedOrbitTargetY ELSE defaultOrbitTargetY]

\* a / b rounded to the nearest grid point
RoundDiv(a, b) == (2 * a + b) \div (2 * b)

\* -------------------------------------------------------- smoothed camera
\* currentAzimuth, currentElevation, frustumSize and orbitTarget.y as
\* declared: each starts on its target's initial value.
CamAtRest ==
  [az |-> 0, el |-> DEFAULT_ELEVATION * CamScale,
   frustum |-> FRUSTUM_DEFAULT * CamScale,
   orbitY |-> defaultOrbitTargetY * CamScale]

CamTargets ==
  [az |-> targetAzimuth * CamScale, el |-> targetElevation * CamScale,
   frustum |-> targetFrustum * CamScale, orbitY |-> targetOrbitY * CamScale]

\* Variant with the factor 1.5 for the frustum size.
updateCameraOvershoot(c) ==
  [az      |-> c.az + RoundDiv((CamTargets.az - c.az) * 10, 100),
   el      |-> c.el + RoundDiv((CamTargets.el - c.el) * 8, 100),
   frustum |-> c.frustum + RoundDiv((CamTargets.frustum - c.frustum) * 150, 100),
   orbitY  |-> c.orbitY + RoundDiv((CamTargets.orbitY - c.orbitY) * 8, 100)]

\* updateCamera(): current += (target - current) * 0.1 for the azimuth and
\* * 0.08 for elevation, frustum size and orbit height.
updateCamera(c) ==
  [az      |-> c.az + RoundDiv((CamTargets.az - c.az) * 10, 100),
   el      |-> c.el + RoundDiv((CamTargets.el - c.el) * 8, 100),
   frustum |-> c.frustum + RoundDiv((CamTargets.frustum - c.frustum) * 8, 100),
   orbitY  |-> c.orbitY + RoundDiv((CamTargets.orbitY - c.orbitY) * 8, 100)]

\* switchCamera(type): the other camera takes over position and orientation.
switchCamera(type) == type

\* ------------------------------------------------------ context transitions
\* The aesthetic contexts, by name, in list order.
contexts == <<"Scandinavian", "Marble", "Minimal", "Walnut", "Steel",
              "Terracotta", "Noir", "Sage", "Blush", "Gallery">>

SCROLL_PER_CONTEXT == 400

\* One context, in position units: deltaY / SCROLL_PER_CONTEXT with deltaY
\* in 1/PixelFraction px.
PositionScale == SCROLL_PER_CONTEXT * PixelFraction

Min(a, b) == IF a < b THEN a ELSE b
Max(a, b) == IF a > b THEN a ELSE b

\* Math.max(0, Math.min(contexts.length - 1, scrollPosition + delta))
ScrollNoUpperClamp(pos, delta) == Max(0, pos + delta)

scrollBy(pos, delta) ==
  Max(0, Min((Len(contexts) - 1) * PositionScale, pos + delta))

\* The wipe modes of the configuration panel ('Top -> Down' = 0, ...).
wipeDirections == 0..7

\* What a frame does with the contexts: the derived indices and progress,
\* the active dot, the presets applied to the live scene in order, the
\* preset rendered into each offscreen target (-1: not rendered), the
\* composite pass with its uniforms, and the full post-processing render.
NoFrame ==
  [fromIdx |-> -1, toIdx |-> -1, t |-> 0, dot |-> -1, applied |-> <<>>,
   rtA |-> -1, rtB |-> -1, composite |-> FALSE, progress |-> 0,
   direction |-> -1, full |-> FALSE]

\* Variant that composites whenever two distinct presets are derived.
renderFrameNoThreshold(pos, dir) ==
  LET fromIdx == pos \div PositionScale
      toIdx   == Min(fromIdx + 1, Len(contexts) - 1)
      t       == pos - fromIdx * PositionScale
      dot     == (2 * pos + PositionScale) \div (2 * PositionScale)
  IN IF fromIdx # toIdx
     THEN [fromIdx |-> fromIdx, toIdx |-> toIdx, t |-> t, dot |-> dot,
           applied |-> <<fromIdx, toIdx>>, rtA |-> fromIdx, rtB |-> toIdx,
           composite |-> TRUE, progress |-> t, direction |-> dir,
           full |-> FALSE]
     ELSE [fromIdx |-> fromIdx, toIdx |-> toIdx, t |-> t, dot |-> dot,
           applied |-> <<fromIdx>>, rtA |-> -1, rtB |-> -1,
           composite |-> FALSE, progress |-> 0, direction |-> -1,
           full |-> TRUE]

\* Variant without the upper clamp of the target index.
renderFrameToIdxUnclamped(pos, dir) ==
  LET fromIdx == pos \div PositionScale
      toIdx   == fromIdx + 1
      t       == pos - fromIdx * PositionScale
      dot     == (2 * pos + PositionScale) \div (2 * PositionScale)
  IN IF t * 1000 > PositionScale /\ fromIdx # toIdx
     THEN [fromIdx |-> fromIdx, toIdx |-> toIdx, t |-> t, dot |-> dot,
           applied |-> <<fromIdx, toIdx>>, rtA |-> fromIdx, rtB |-> toIdx,
           composite |-> TRUE, progress |-> t, direction |-> dir,
           full |-> FALSE]
     ELSE [fromIdx |-> fromIdx, toIdx |-> toIdx, t |-> t, dot |-> dot,
           applied |-> <<fromIdx>>, rtA |-> -1, rtB |-> -1,
           composite |-> FALSE, progress |-> 0, direction |-> -1,
           full |-> TRUE]

\* Variant that leaves the direction uniform at its initial value.
renderFrameStaleDirection(pos, dir) ==
  LET fromIdx == pos \div PositionScale
      toIdx   == Min(fromIdx + 1, Len(contexts) - 1)
      t       == pos - fromIdx * PositionScale
      dot     == (2 * pos + PositionScale) \div (2 * PositionScale)
  IN IF t * 1000 > PositionScale /\ fromIdx # toIdx
     THEN [fromIdx |-> fromIdx, toIdx |-> toIdx, t |-> t, dot |-> dot,
           applied |-> <<fromIdx, toIdx>>, rtA |-> fromIdx, rtB |-> toIdx,
           composite |-> TRUE, progress |-> t, direction |-> 0,
           full |-> FALSE]
     ELSE [fromIdx |-> fromIdx, toIdx |-> toIdx, t |-> t, dot |-> dot,
           applied |-> <<fromIdx>>, rtA |-> -1, rtB |-> -1,
           composite |-> FALSE, progress |-> 0, direction |-> -1,
           full |-> TRUE]

\* animate(), lines 1363-1390: t > 0.001 is t * 1000 > PositionScale in
\* position units.
renderFrame(pos, dir) ==
  LET fromIdx == pos \div PositionScale
      toIdx   == Min(fromIdx + 1, Len(contexts) - 1)
      t       == pos - fromIdx * PositionScale
      dot     == (2 * pos + PositionScale) \div (2 * PositionScale)
  IN IF t * 1000 > PositionScale /\ fromIdx # toIdx
     THEN [fromIdx |-> fromIdx, toIdx |-> toIdx, t |-> t, dot |-> dot,
           applied |-> <<fromIdx, toIdx>>, rtA |-> fromIdx, rtB |-> toIdx,
           composite |-> TRUE, progress |-> t, direction |-> dir,
           full |-> FALSE]
     ELSE [fromIdx |-> fromIdx, toIdx |-> toIdx, t |-> t, dot |-> dot,
           applied |-> <<fromIdx>>, rtA |-> -1, rtB |-> -1,
           composite |-> FALSE, progress |-> 0, direction |-> -1,
           full |-> TRUE]

\* --------------------------------------------------------- explode animator
EXPLODE_DISTANCE == 300

\* Variant with the factor 0.008.
explodeStepSlow(t, target) == t + RoundDiv((target - t) * 8, 1000)

\* explodeT += (target - explodeT) * 0.08, on the grid
explodeStep(t, target) == t + RoundDiv((target - t) * 8, 100)

\* The distance from its target at which a value on the grid stops moving
\* (floating point does the same at its own resolution).
ExplodeEps == 100 \div (2 * 8)

\* explodeT * EXPLODE_DISTANCE, in thousandths of a scene unit
explodeOffset(t) == RoundDiv(t * EXPLODE_DISTANCE, ExplodeScale)

\* ------------------------------------------------------ explode directions
\* Vectors are <<x, y, z>> in hundredths of a scene unit.  A direction is
\* [v, len2, finite]: the vector v divided by the square root of len2.
MinUp == 5

\* Box3.getCenter: (0, 0, 0) for an empty box, else the centre; a box of
\* zero size is not empty.
getCenter(box) == IF box.empty THEN <<0, 0, 0>> ELSE box.ctr

subVectors(a, b) == <<a[1] - b[1], a[2] - b[2], a[3] - b[3]>>

LengthSq(v) == v[1] * v[1] + v[2] * v[2] + v[3] * v[3]

\* Variant without the clamp.
clampUpNone(v) == v

\* Variant that clamps with Math.min.
clampUpMin(v) == <<v[1], Min(v[2], MinUp), v[3]>>

\* dir.y = Math.max(dir.y, 0.05)
clampUp(v) == <<v[1], Max(v[2], MinUp), v[3]>>

\* normalize(): divideScalar(length() || 1)
normalize(v) ==
  LET d == IF LengthSq(v) = 0 THEN 1 ELSE LengthSq(v)
  IN [v |-> v, len2 |-> d, finite |-> d # 0]

\* World rotations of a parent: none, the loader's rotation of the root
\* about x by -90 degrees, its inverse, and half and quarter turns.
Quaternions == {"identity", "x-90", "x+90", "x180", "y+90", "y-90"}

invert(q) ==
  CASE q = "x-90" -> "x+90"
    [] q = "x+90" -> "x-90"
    [] q = "y+90" -> "y-90"
    [] q = "y-90" -> "y+90"
    [] OTHER -> q

rotate(v, q) ==
  CASE q = "x-90" -> <<v[1], v[3], -v[2]>>
    [] q = "x+90" -> <<v[1], -v[3], v[2]>>
    [] q = "x180" -> <<v[1], -v[2], -v[3]>>
    [] q = "y+90" -> <<v[3], v[2], -v[1]>>
    [] q = "y-90" -> <<-v[3], v[2], v[1]>>
    [] OTHER -> v

applyQuaternion(d, q) == [d EXCEPT !.v = rotate(d.v, q)]

\* The direction buildExplodeParts stores for a mesh: from the model centre
\* to the mesh's box centre, clamped upward, normalised, and converted to
\* the parent's local space.
explodeDirection(modelCtr, box, parentQ) ==
  LET dir == clampUp(subVectors(getCenter(box), modelCtr))
  IN applyQuaternion(normalize(dir), invert(parentQ))

\* object.position.copy(originalPos).addScaledVector(direction, ...): the
\* written position is finite iff the direction is.
positionFinite(direction) == direction.finite

\* ---------------------------------------------------------------- history
\* ev describes the handler that ran last: its kind; for a click the unit
\* kind it resolved (res), the owner, whether it reported handled, the
\* visibility flags before it (before, for an individual) and before the
\* click preceding it when that one resolved the same individual (before2);
\* for pointer events whether the ray met no toggleable mesh (miss) and
\* whether the handler wrote a removed model's materials (stale); for a
\* pointer move that met nothing and for a handled click, the kind of group
\* hovered before it (was).
\* For a click or an arrow key the direction (dir); for a wheel event the
\* position before it (from) and its delta; for a frame what it rendered
\* (frame), for a zoom input the zoom targets before it (before) and, when
\* it directly follows another zoom input, those before that one (before2),
\* for a marker click its descriptor (data), for a frame the instances whose
\* anchor projected behind the camera (behind),
\* for a frame the update steps it ran in order (steps), what the marker
\* placement read (placed) and, when it directly follows a wheel event,
\* that event's <<from, delta>> (after).
NoEvent ==
  [kind |-> "init", res |-> "na", owner |-> <<>>, handled |-> FALSE,
   miss |-> FALSE, stale |-> FALSE, was |-> "na",
   before |-> <<>>, before2 |-> <<>>,
   dir |-> 0, from |-> 0, delta |-> 0, after |-> <<>>, frame |-> NoFrame,
   steps |-> <<>>, placed |-> <<>>, behind |-> {}, data |-> 0]

\* cyc: the direction of the current run of view-cycling steps, their
\* number (at most the number of presets) and the view before the first.
NoCycle == [dir |-> 0, n |-> 0, start |-> <<>>]

NoProbe == [names |-> <<>>, built |-> FALSE, inst |-> <<>>]

\* ------------------------------------------------------------ model loading
\* Handlers and the configuration panel exist once init() has run past the
\* environment await (listeners are added at lines 603-831, createGUI at
\* 1005); onModelLoaded is assigned in the same synchronous stretch.
HandlersOn == pc \in {"tex", "run"}

onModelLoadedSet == pc \in {"tex", "run"}

AllTrue(m)  == [i \in NodeIdx(m) |-> TRUE]
AllFalse(m) == [i \in NodeIdx(m) |-> FALSE]

\* Variant that does not rebuild the annotations.
onModelLoadedKeepsHotspots(m) ==
  [toggleMap |-> buildToggleMap(m),
   explodeParts |-> buildExplodeParts(m),
   hotspotInstances |-> hotspotInstances]

\* onModelLoaded(m): [toggleMap, explodeParts, hotspotInstances]
onModelLoaded(m) ==
  [toggleMap |-> buildToggleMap(m),
   explodeParts |-> buildExplodeParts(m),
   hotspotInstances |-> initHotspots(m)]

InitProgram ==
  /\ pc = "model"
  /\ initFailed = FALSE
  /\ statusText = "loading model..."
  /\ inFlight = << [id |-> 1, key |-> "full"] >>
  /\ currentModel = NullModel
  /\ guiModel = NullModel
  /\ guiSetting = "full"
  /\ visible = <<>>
  /\ emissive = <<>>
  /\ toggleMap = EmptyToggleMap
  /\ explodeParts = {}
  /\ hotspotInstances = <<>>
  /\ hoveredGroup = NullGroup
  /\ viewIndex = 0
  /\ targetAzimuth = 0
  /\ targetElevation = DEFAULT_ELEVATION
  /\ zoomed = FALSE
  /\ targetFrustum = FRUSTUM_DEFAULT
  /\ targetOrbitY = defaultOrbitTargetY
  /\ exploded = FALSE
  /\ guiView = "Front"
  /\ scrollPosition = 0
  /\ wipeDirection = 0
  /\ guiWipe = 3
  /\ explodeT = 0
  /\ partOffset = <<>>
  /\ cam = CamAtRest
  /\ cameraType = "Orthographic"
  /\ frames = 0
  /\ cyc = NoCycle
  /\ ev = NoEvent

Init == InitProgram /\ probe = NoProbe

\* inFlight without its k-th element
RemoveAt(q, k) == SubSeq(q, 1, k - 1) \o SubSeq(q, k + 1, Len(q))

\* Variant of the success callback that returns to the front view.
LoadSuccessResetsView(k) ==
  /\ k \in 1..Len(inFlight)
  /\ LET l == inFlight[k]
     IN /\ inFlight' = RemoveAt(inFlight, k)
        /\ currentModel' = l
        /\ visible' = AllTrue(l)
        /\ emissive' = AllFalse(l)
        /\ IF onModelLoadedSet
           THEN /\ toggleMap' = onModelLoaded(l).toggleMap
                /\ explodeParts' = onModelLoaded(l).explodeParts
                /\ hotspotInstances' = onModelLoaded(l).hotspotInstances
           ELSE UNCHANGED <<toggleMap, explodeParts, hotspotInstances>>
        /\ IF pc = "model"
           THEN /\ pc' = "env"
                /\ statusText' = "loading environment..."
                /\ UNCHANGED guiModel
           ELSE /\ guiModel' = l
                /\ UNCHANGED <<pc, statusText>>
  /\ ev' = [NoEvent EXCEPT !.kind = "loaded"]
  /\ viewIndex' = setView("Front").idx
  /\ targetAzimuth' = setView("Front").az
  /\ targetElevation' = setView("Front").el
  /\ UNCHANGED <<initFailed, guiSetting, hoveredGroup, zoomVars, exploded>>
  /\ partOffset' = [i \in NodeIdx(inFlight[k]) |-> 0]
  /\ UNCHANGED <<cam, cameraType, frames, guiView, cyc, ctxVars, explodeT, probe>>

\* loader.load success callback of the k-th load in flight, with the
\* continuation of the await on the returned promise (a microtask: it runs
\* before any other handler).
LoadSuccess(k) ==
  /\ k \in 1..Len(inFlight)
  /\ LET l == inFlight[k]
     IN /\ inFlight' = RemoveAt(inFlight, k)
        /\ currentModel' = l
        /\ visible' = AllTrue(l)
        /\ emissive' = AllFalse(l)
        /\ IF onModelLoadedSet
           THEN /\ toggleMap' = onModelLoaded(l).toggleMap
                /\ explodeParts' = onModelLoaded(l).explodeParts
                /\ hotspotInstances' = onModelLoaded(l).hotspotInstances
           ELSE UNCHANGED <<toggleMap, explodeParts, hotspotInstances>>
        /\ IF pc = "model"
           THEN /\ pc' = "env"
                /\ statusText' = "loading environment..."
                /\ UNCHANGED guiModel
           ELSE /\ guiModel' = l
                /\ UNCHANGED <<pc, statusText>>
  /\ ev' = [NoEvent EXCEPT !.kind = "loaded"]
  /\ UNCHANGED <<initFailed, guiSetting, hoveredGroup, viewVars, zoomVars, exploded>>
  /\ partOffset' = [i \in NodeIdx(inFlight[k]) |-> 0]
  /\ UNCHANGED <<cam, cameraType, frames, guiView, cyc, ctxVars, explodeT, probe>>

\* Variant of the error callback that removes the installed model first,
\* as the success callback does.
LoadFailRemovesModel(k) ==
  /\ k \in 1..Len(inFlight)
  /\ inFlight' = RemoveAt(inFlight, k)
  /\ currentModel' = NullModel
  /\ visible' = <<>>
  /\ emissive' = <<>>
  /\ IF pc = "model"
     THEN /\ initFailed' = TRUE
          /\ statusText' = "failed to load"
     ELSE UNCHANGED <<initFailed, statusText>>
  /\ ev' = [NoEvent EXCEPT !.kind = "loaderror"]
  /\ UNCHANGED <<pc, guiSetting, guiModel, toggleMap, explodeParts, hoveredGroup,
                 hotspotInstances, viewVars, zoomVars, exploded>>
  /\ partOffset' = <<>>
  /\ UNCHANGED <<cam, cameraType, frames, guiView, cyc, ctxVars, explodeT, probe>>

\* loader.load error callback of the k-th load in flight: reject(error).
\* init() awaits the first load and its rejection reaches init().catch; the
\* configuration panel's onChange awaits a reload inside an async callback
\* whose promise nobody observes.
LoadFail(k) ==
  /\ k \in 1..Len(inFlight)
  /\ inFlight' = RemoveAt(inFlight, k)
  /\ IF pc = "model"
     THEN /\ initFailed' = TRUE
          /\ statusText' = "failed to load"
     ELSE UNCHANGED <<initFailed, statusText>>
  /\ ev' = [NoEvent EXCEPT !.kind = "loaderror"]
  /\ UNCHANGED <<pc, guiSetting, modelVars, partVars, hotspotInstances,
                 viewVars, zoomVars, exploded>>
  /\ UNCHANGED <<cam, cameraType, frames, guiView, cyc, ctxVars, animVars, probe>>

\* The environment map resolved: init() runs synchronously up to the
\* texture await (hotspots, toggle map, explode parts, listeners, panel).
EnvLoaded ==
  /\ pc = "env" /\ ~initFailed
  /\ hotspotInstances' = initHotspots(currentModel)
  /\ toggleMap' = buildToggleMap(currentModel)
  /\ explodeParts' = buildExplodeParts(currentModel)
  /\ guiModel' = currentModel
  /\ statusText' = "initializing..."
  /\ pc' = "tex"
  /\ ev' = [NoEvent EXCEPT !.kind = "envloaded"]
  /\ UNCHANGED <<initFailed, inFlight, guiSetting, currentModel,
                 partVars, viewVars, zoomVars, exploded>>
  /\ UNCHANGED <<cam, cameraType, frames, guiView, cyc, ctxVars, animVars, probe>>

\* An await of init() after the model rejected: init().catch
InitAwaitFail ==
  /\ pc \in {"env", "tex"} /\ ~initFailed
  /\ initFailed' = TRUE
  /\ statusText' = "failed to load"
  /\ ev' = [NoEvent EXCEPT !.kind = "initerror"]
  /\ UNCHANGED <<pc, inFlight, guiSetting, modelVars, partVars,
                 hotspotInstances, viewVars, zoomVars, exploded>>
  /\ UNCHANGED <<cam, cameraType, frames, guiView, cyc, ctxVars, animVars, probe>>

\* The textures resolved: init() runs to its end and starts the render loop.
TexLoaded ==
  /\ pc = "tex" /\ ~initFailed
  /\ pc' = "run"
  /\ statusText' = "loading textures..."
  /\ ev' = [NoEvent EXCEPT !.kind = "texloaded"]
  /\ UNCHANGED <<initFailed, inFlight, guiSetting, modelVars, partVars,
                 hotspotInstances, viewVars, zoomVars, exploded>>
  /\ UNCHANGED <<cam, cameraType, frames, guiView, cyc, ctxVars, animVars, probe>>

\* Identities some reference of the program still holds.
LiveIds ==
  {currentModel.id, guiModel.id}
  \cup {inFlight[k].id : k \in 1..Len(inFlight)}
  \cup {o.model.id : o \in Range(hoveredGroup.objs)}
  \cup {o.model.id : o \in Range(allToggleable)}
  \cup {o.model.id : o \in explodeParts}
  \cup {hotspotInstances[k].object.model.id : k \in 1..Len(hotspotInstances)}

FreshId == CHOOSE i \in 1..(Cardinality(LiveIds) + 1) :
             i \notin LiveIds /\ \A j \in 1..(i - 1) : j \in LiveIds

\* Model quality dropdown (fires when the value changes):
\* onChange(async v => { currentModel = await loadModel(v); })
GuiSelectModel(v) ==
  /\ HandlersOn
  /\ v # guiSetting
  /\ Len(inFlight) < MaxInFlight
  /\ guiSetting' = v
  /\ inFlight' = Append(inFlight, [id |-> FreshId, key |-> v])
  /\ ev' = [NoEvent EXCEPT !.kind = "select"]
  /\ UNCHANGED <<pc, initFailed, statusText, modelVars, partVars,
                 hotspotInstances, viewVars, zoomVars, exploded>>
  /\ UNCHANGED <<cam, cameraType, frames, guiView, cyc, ctxVars, animVars, probe>>

\* ----------------------------------------------------------- input handlers
\* Rays through the installed model: at most MaxRayLen distinct meshes.
RECURSIVE RaysOfLen(_, _)
RaysOfLen(M, k) ==
  IF k = 0 THEN {<<>>}
  ELSE {Append(r, i) : r \in RaysOfLen(M, k - 1), i \in M} \ 
       {r \in {Append(q, i) : q \in RaysOfLen(M, k - 1), i \in M} :
          \E a \in 1..(k - 1) : r[a] = r[k]}

RaysIn(sc) ==
  UNION {RaysOfLen({d \in 1..Len(sc.parent) : sc.isMesh[d]}, k) : k \in 0..MaxRayLen}

RaysFull == RaysIn(SceneFull)

RaysOptimized == RaysIn(SceneOptimized)

Rays == IF currentModel.key = "full" THEN RaysFull ELSE RaysOptimized

\* The meshes of the installed model that belong to a toggle unit.
ToggleMeshIdx == collectMeshes(allToggleable)

\* canvas mousemove
MouseMove(ray) ==
  /\ HandlersOn
  /\ LET h == HoverUpdate(ray)
     IN /\ hoveredGroup' = h.hov
        /\ emissive' = h.em
        /\ ev' = [NoEvent EXCEPT !.kind = "mousemove", !.miss = RayMisses(ray),
                                 !.stale = h.stale,
                                 !.was = IF RayMisses(ray) THEN hoveredGroup.kind ELSE "na"]
  /\ UNCHANGED <<loadVars, modelVars, visible, hotspotInstances, viewVars, zoomVars, exploded>>
  /\ UNCHANGED <<cam, cameraType, frames, guiView, cyc, ctxVars, animVars, probe>>

\* canvas click (dir = 1) and contextmenu (dir = -1)
PointerClick(dir, ray) ==
  /\ HandlersOn
  /\ LET r == tryTogglePart(ray)
         v == ViewAfterClick(r.handled, dir)
         same == /\ ev.kind = "click"
                 /\ ev.res = "indiv" /\ r.res = "indiv" /\ ev.owner = r.owner
     IN /\ visible' = r.vis
        /\ hoveredGroup' = r.hov
        /\ emissive' = r.em
        /\ viewIndex' = v.idx
        /\ targetAzimuth' = v.az
        /\ targetElevation' = v.el
        /\ ev' = [NoEvent EXCEPT !.kind = "click", !.dir = dir,
                                 !.res = r.res, !.owner = r.owner,
                                 !.handled = r.handled, !.miss = RayMisses(ray),
                                 !.stale = r.stale,
                                 !.was = IF r.handled THEN hoveredGroup.kind ELSE "na",
                                 !.before = IF r.res = "indiv" THEN visible ELSE <<>>,
                                 !.before2 = IF same THEN ev.before ELSE <<>>]
  /\ UNCHANGED <<loadVars, modelVars, hotspotInstances, zoomVars, exploded>>
  /\ UNCHANGED <<cam, cameraType, frames, guiView, ctxVars, animVars, probe>>

Click(ray) == PointerClick(1, ray)

ContextMenu(ray) == PointerClick(-1, ray)

\* keydown ArrowRight / ArrowLeft
KeyArrow(dir) ==
  /\ HandlersOn
  /\ LET v == cycleView(dir)
     IN /\ viewIndex' = v.idx
        /\ targetAzimuth' = v.az
        /\ targetElevation' = v.el
  /\ ev' = [NoEvent EXCEPT !.kind = "keyarrow"]
  /\ UNCHANGED <<loadVars, modelVars, partVars, hotspotInstances, zoomVars, exploded>>
  /\ UNCHANGED <<cam, cameraType, frames, guiView, ctxVars, animVars, probe>>

\* Variant of the zoom handler that also sets frustumSize.
ZoomInputSnaps ==
  /\ HandlersOn
  /\ zoomed' = toggleZoom.zoomed
  /\ targetFrustum' = toggleZoom.frustum
  /\ targetOrbitY' = toggleZoom.orbitY
  /\ ev' = [NoEvent EXCEPT !.kind = "zoom",
                           !.before = <<zoomed, targetFrustum, targetOrbitY>>,
                           !.before2 = IF ev.kind = "zoom" THEN ev.before ELSE <<>>]
  /\ UNCHANGED <<loadVars, modelVars, partVars, hotspotInstances, viewVars, exploded>>
  /\ cam' = [cam EXCEPT !.frustum = toggleZoom.frustum * CamScale]
  /\ UNCHANGED <<cameraType, frames, guiView, cyc, ctxVars, animVars, probe>>

\* keydown z / Z / ArrowUp / ArrowDown, and canvas dblclick
ZoomInput ==
  /\ HandlersOn
  /\ zoomed' = toggleZoom.zoomed
  /\ targetFrustum' = toggleZoom.frustum
  /\ targetOrbitY' = toggleZoom.orbitY
  /\ ev' = [NoEvent EXCEPT !.kind = "zoom",
                           !.before = <<zoomed, targetFrustum, targetOrbitY>>,
                           !.before2 = IF ev.kind = "zoom" THEN ev.before ELSE <<>>]
  /\ UNCHANGED <<loadVars, modelVars, partVars, hotspotInstances, viewVars, exploded>>
  /\ UNCHANGED <<cam, cameraType, frames, guiView, cyc, ctxVars, animVars, probe>>

\* keydown e / E: flip exploded, open or close every annotation with it
KeyExplode ==
  /\ HandlersOn
  /\ exploded' = ~exploded
  /\ hotspotInstances' =
       [k \in 1..Len(hotspotInstances) |->
          [hotspotInstances[k] EXCEPT !.open = ~exploded, !.shown = ~exploded]]
  /\ ev' = [NoEvent EXCEPT !.kind = "keyexplode"]
  /\ UNCHANGED <<loadVars, modelVars, partVars, viewVars, zoomVars>>
  /\ UNCHANGED <<cam, cameraType, frames, guiView, cyc, ctxVars, animVars, probe>>

\* Variant whose marker click opens or closes every card at once.
MarkerClickAll(d) ==
  /\ HandlersOn
  /\ \E k \in 1..Len(hotspotInstances) : hotspotInstances[k].data = d
  /\ hotspotInstances' =
       [k \in 1..Len(hotspotInstances) |->
          [hotspotInstances[k] EXCEPT !.open = ~hotspotInstances[k].open,
                                      !.shown = ~hotspotInstances[k].open]]
  /\ ev' = [NoEvent EXCEPT !.kind = "marker", !.data = d]
  /\ UNCHANGED <<loadVars, modelVars, partVars, viewVars, zoomVars, exploded>>
  /\ UNCHANGED <<cam, cameraType, frames, guiView, cyc, ctxVars, animVars, probe>>

\* click on the marker of the instance built for descriptor d
MarkerClick(d) ==
  /\ HandlersOn
  /\ \E k \in 1..Len(hotspotInstances) : hotspotInstances[k].data = d
  /\ hotspotInstances' =
       [k \in 1..Len(hotspotInstances) |->
          IF hotspotInstances[k].data = d
          THEN [hotspotInstances[k] EXCEPT !.open = ~hotspotInstances[k].open,
                                           !.shown = ~hotspotInstances[k].open]
          ELSE hotspotInstances[k]]
  /\ ev' = [NoEvent EXCEPT !.kind = "marker", !.data = d]
  /\ UNCHANGED <<loadVars, modelVars, partVars, viewVars, zoomVars, exploded>>
  /\ UNCHANGED <<cam, cameraType, frames, guiView, cyc, ctxVars, animVars, probe>>

\* View dropdown of the configuration panel (fires when the value
\* changes): onChange(v => setView(v))
GuiSetView(name) ==
  /\ HandlersOn
  /\ name # guiView
  /\ guiView' = name
  /\ viewIndex' = setView(name).idx
  /\ targetAzimuth' = setView(name).az
  /\ targetElevation' = setView(name).el
  /\ cyc' = NoCycle
  /\ ev' = [NoEvent EXCEPT !.kind = "guiview"]
  /\ UNCHANGED <<loadVars, modelVars, partVars, hotspotInstances, zoomVars, exploded>>
  /\ UNCHANGED <<cam, cameraType, frames, ctxVars, animVars, probe>>

\* History of cycling: a step in direction dir extends the current run, or
\* starts a new one when the direction changes or the run is complete.
CycStep(dir) ==
  IF cyc.dir = dir /\ cyc.n < Len(viewList)
  THEN [cyc EXCEPT !.n = cyc.n + 1]
  ELSE [dir |-> dir, n |-> 1, start |-> <<KeepView>>]

\* A click cycles the view only when tryTogglePart reported unhandled.
CycAfterClick(dir) == IF ev'.handled THEN cyc ELSE CycStep(dir)

\* Wheel deltas offered at position pos: half a context, one context and
\* more than the whole range, both ways; single units near a preset.
WheelDeltas(pos) ==
  LET coarse == {s * d : s \in {-1, 1},
                         d \in {PositionScale \div 2, PositionScale,
                                Len(contexts) * PositionScale}}
      near(p) == LET r == p % PositionScale
                 IN r <= MaxFine \/ PositionScale - r <= MaxFine
      fine   == {d \in {-1, 1} : near(pos + d)}
  IN coarse \cup fine

\* canvas wheel: delta is deltaY in 1/PixelFraction px
Wheel(delta) ==
  /\ pc = "run"
  /\ scrollPosition' = scrollBy(scrollPosition, delta)
  /\ ev' = [NoEvent EXCEPT !.kind = "wheel", !.from = scrollPosition, !.delta = delta]
  /\ UNCHANGED <<loadVars, modelVars, partVars, hotspotInstances, viewVars, zoomVars, exploded>>
  /\ UNCHANGED <<cam, cameraType, frames, guiView, cyc, wipeDirection, guiWipe, animVars, probe>>

\* click on the i-th context dot: scrollPosition = i
DotClick(i) ==
  /\ pc = "run"
  /\ scrollPosition' = i * PositionScale
  /\ ev' = [NoEvent EXCEPT !.kind = "dot", !.from = scrollPosition, !.delta = i]
  /\ UNCHANGED <<loadVars, modelVars, partVars, hotspotInstances, viewVars, zoomVars, exploded>>
  /\ UNCHANGED <<cam, cameraType, frames, guiView, cyc, wipeDirection, guiWipe, animVars, probe>>

\* Wipe direction dropdown of the configuration panel (fires when the value
\* changes): setWipeDirection(v).  The panel exists before init() reaches
\* the declaration of wipeDirection (line 1266, after the texture await);
\* until then the assignment throws a ReferenceError and assigns nothing.
GuiSelectWipe(v) ==
  /\ HandlersOn
  /\ v # guiWipe
  /\ guiWipe' = v
  /\ IF pc = "run"
     THEN /\ wipeDirection' = v
          /\ ev' = [NoEvent EXCEPT !.kind = "wipe"]
     ELSE /\ UNCHANGED wipeDirection
          /\ ev' = [NoEvent EXCEPT !.kind = "wipeerror"]
  /\ UNCHANGED <<loadVars, modelVars, partVars, hotspotInstances, viewVars, zoomVars, exploded>>
  /\ UNCHANGED <<cam, cameraType, frames, guiView, cyc, scrollPosition, animVars, probe>>


\* ------------------------------------------------------------------ frames
\* The state a frame works on: smoothed camera, explode progress, part
\* displacements, the annotation instances, the instances whose anchor
\* projects to a depth above 1 (behind), what the marker placement read,
\* what was rendered, and the steps run so far.  Where an anchor projects
\* to depends on the asset's geometry and units, which the scenes do not
\* carry: behind is an input of the frame.
FrameStart(behind) ==
  [cam |-> cam, t |-> explodeT, off |-> partOffset, inst |-> hotspotInstances,
   behind |-> behind, placed |-> <<>>, frame |-> NoFrame, steps |-> <<>>]

\* updateCamera()
stepCamera(f) ==
  [f EXCEPT !.cam = updateCamera(f.cam), !.steps = Append(@, "camera")]

\* updateExplode(): explodeT moves and every part is put at
\* origin + dir * explodeT * EXPLODE_DISTANCE
stepExplode(f) ==
  LET t1 == explodeStep(f.t, IF exploded THEN ExplodeScale ELSE 0)
  IN [f EXCEPT !.t = t1,
               !.off = [i \in DOMAIN f.off |->
                          IF Node(currentModel, i) \in explodeParts
                          THEN explodeOffset(t1) ELSE f.off[i]],
               !.steps = Append(@, "explode")]

\* What tmpBox.setFromObject(inst.object) and project(camera) read: the
\* displacements of the meshes at or below the anchor, and the camera.
AnchorSeen(o, off) ==
  IF o.model = currentModel THEN {off[i] : i \in MeshesBelow(o.model, o.n)} ELSE {}

\* forEach body of updateHotspotPositions: projected.z > 1 sets the
\* marker's opacity to 0 and removes the card's 'visible' class; otherwise
\* the opacity is reset and marker and card are positioned.
placeMarker(inst, isBehind) ==
  IF isBehind
  THEN [inst EXCEPT !.hidden = TRUE, !.shown = FALSE]
  ELSE [inst EXCEPT !.hidden = FALSE]

\* updateHotspotPositions()
stepHotspots(f) ==
  [f EXCEPT !.placed = [cam |-> f.cam,
                        parts |-> [k \in 1..Len(f.inst) |->
                                     AnchorSeen(f.inst[k].object, f.off)]],
            !.inst = [k \in 1..Len(f.inst) |-> placeMarker(f.inst[k], k \in f.behind)],
            !.steps = Append(@, "hotspots")]

\* lines 1363-1390: the contexts are rendered and composited
stepRender(f) ==
  [f EXCEPT !.frame = renderFrame(scrollPosition, wipeDirection),
            !.steps = Append(@, "render")]

\* Variant that places the markers before the camera and the parts move.
animateHotspotsFirst(behind) ==
  stepRender(stepExplode(stepCamera(stepHotspots(FrameStart(behind)))))

\* animate(): updateCamera(); updateExplode(); updateHotspotPositions();
\* then the render of the contexts.
animate(behind) ==
  stepRender(stepHotspots(stepExplode(stepCamera(FrameStart(behind)))))

\* One frame in which the anchors of the instances in behind project to a
\* depth above 1.  A frame runs to completion: no handler runs inside it.
AnimateWith(behind) ==
  /\ pc = "run"
  /\ cam' = animate(behind).cam
  /\ explodeT' = animate(behind).t
  /\ partOffset' = animate(behind).off
  /\ hotspotInstances' = animate(behind).inst
  /\ ev' = [NoEvent EXCEPT !.kind = "frame",
                           !.frame = animate(behind).frame,
                           !.steps = animate(behind).steps,
                           !.placed = animate(behind).placed,
                           !.behind = behind,
                           !.after = IF ev.kind = "wheel"
                                     THEN <<ev.from, ev.delta>> ELSE <<>>]
  /\ UNCHANGED <<loadVars, modelVars, partVars, viewVars, zoomVars, exploded>>
  /\ UNCHANGED <<cameraType, guiView, cyc, ctxVars, probe>>

\* One frame with every anchor in front of the camera and within the far
\* plane, as for a model of unit size seen from the orbit radius.
Animate == AnimateWith({})

\* A frame of an unbounded run, and a frame of a run of at most MaxFrames
\* frames.
Frame == Animate /\ UNCHANGED frames

CountedFrame == Animate /\ frames < MaxFrames /\ frames' = frames + 1

CountedFrameWith(behind) ==
  AnimateWith(behind) /\ frames < MaxFrames /\ frames' = frames + 1

\* Projection dropdown of the configuration panel (fires when the value
\* changes): onChange(v => switchCamera(v))
GuiSwitchCamera(v) ==
  /\ HandlersOn
  /\ v # cameraType
  /\ cameraType' = switchCamera(v)
  /\ ev' = [NoEvent EXCEPT !.kind = "guiprojection"]
  /\ UNCHANGED <<loadVars, modelVars, partVars, hotspotInstances, viewVars, zoomVars, exploded>>
  /\ UNCHANGED <<cam, frames, guiView, cyc, ctxVars, animVars, probe>>

\* The annotation resolver applied to a scene given by its node names.
ProbeNames ==
  UNION {{ HOTSPOTS[k].match, HOTSPOTS[k].match \o <<" fan">> } : k \in 1..Len(HOTSPOTS)}
  \cup { <<"ASM">>, <<>> }

RECURSIVE ProbeScenes(_)
ProbeScenes(n) ==
  IF n = 0 THEN { <<>> }
  ELSE LET S == ProbeScenes(n - 1)
       IN S \cup {Append(s, x) : s \in {q \in S : Len(q) = n - 1}, x \in ProbeNames}

BuildProbe ==
  /\ ~probe.built
  /\ probe' = [probe EXCEPT !.built = TRUE, !.inst = initHotspotsIn(probe.names, 1)]
  /\ UNCHANGED <<loadVars, modelVars, partVars, hotspotInstances, viewVars, zoomVars, exploded>>
  /\ UNCHANGED <<cam, cameraType, frames, guiView, cyc, ctxVars, animVars, ev>>

\* The explode-direction builder applied to one mesh.
Coords == {k * CoordStep : k \in (0 - MaxCoord)..MaxCoord}

Points == {<<x, y, z>> : x \in Coords, y \in Coords, z \in Coords}

Boxes == {[empty |-> FALSE, ctr |-> c] : c \in Points}
         \cup {[empty |-> TRUE, ctr |-> <<0, 0, 0>>]}

BuildDirection ==
  /\ ~probe.built
  /\ probe' = [probe EXCEPT !.built = TRUE,
                            !.direction = explodeDirection(probe.modelCtr, probe.box, probe.parentQ),
                            !.written = positionFinite(explodeDirection(probe.modelCtr, probe.box, probe.parentQ))]
  /\ UNCHANGED <<loadVars, modelVars, partVars, hotspotInstances, viewVars, zoomVars, exploded>>
  /\ UNCHANGED <<cam, cameraType, frames, guiView, cyc, ctxVars, animVars, ev>>

Next ==
  \/ \E k \in 1..MaxInFlight : LoadSuccess(k)
  \/ \E k \in 1..MaxInFlight : LoadFail(k)
  \/ EnvLoaded
  \/ InitAwaitFail
  \/ TexLoaded
  \/ \E v \in MODEL_PATHS : GuiSelectModel(v)
  \/ \E ray \in Rays : MouseMove(ray)
  \/ \E ray \in Rays : Click(ray) /\ cyc' = CycAfterClick(1)
  \/ \E ray \in Rays : ContextMenu(ray) /\ cyc' = CycAfterClick(-1)
  \/ \E dir \in {-1, 1} : KeyArrow(dir) /\ cyc' = CycStep(dir)
  \/ ZoomInput
  \/ KeyExplode
  \/ \E d \in 1..Len(HOTSPOTS) : MarkerClick(d)
  \/ \E name \in Range(viewList) : GuiSetView(name)
  \/ \E d \in WheelDeltas(scrollPosition) : Wheel(d)
  \/ \E i \in 0..(Len(contexts) - 1) : DotClick(i)
  \/ \E v \in wipeDirections : GuiSelectWipe(v)
  \/ \E v \in {"Orthographic", "Perspective"} : GuiSwitchCamera(v)
  \/ Frame

Spec == Init /\ [][Next]_vars

\* The part-interaction machine: init(), reloads requested one at a time
\* (each may fail) and the pointer handlers.  Zoom, explode and marker input
\* touch none of its variables.
NextParts ==
  \/ LoadSuccess(1)
  \/ LoadFail(1)
  \/ EnvLoaded
  \/ \E v \in MODEL_PATHS : GuiSelectModel(v) /\ inFlight = <<>>
  \/ \E ray \in Rays : MouseMove(ray)
  \/ \E ray \in Rays : Click(ray) /\ UNCHANGED cyc
  \/ \E dir \in {-1, 1} : KeyArrow(dir) /\ UNCHANGED cyc

SpecParts == Init /\ [][NextParts]_vars

\* The loading machine: init(), overlapping reloads from the configuration
\* panel and their failures, with the hover handler that holds node
\* references.
NextLoad ==
  \/ \E k \in 1..MaxInFlight : LoadSuccess(k)
  \/ \E k \in 1..MaxInFlight : LoadFail(k)
  \/ EnvLoaded
  \/ \E v \in MODEL_PATHS : GuiSelectModel(v)
  \/ \E ray \in Rays : MouseMove(ray)

SpecLoad == Init /\ [][NextLoad]_vars

\* The click-arbitration machine on the model init() loaded: pointer and
\* key handlers, annotations, view and zoom targets.
NextClick ==
  \/ LoadSuccess(1) /\ pc = "model"
  \/ EnvLoaded
  \/ \E ray \in Rays : Click(ray) /\ UNCHANGED cyc
  \/ \E ray \in Rays : ContextMenu(ray) /\ UNCHANGED cyc
  \/ \E dir \in {-1, 1} : KeyArrow(dir) /\ UNCHANGED cyc
  \/ ZoomInput
  \/ KeyExplode
  \/ \E d \in 1..Len(HOTSPOTS) : MarkerClick(d)

SpecClick == Init /\ [][NextClick]_vars

\* Whether a click cycles the view is decided by the first mesh under the
\* pointer alone: rays with at most one mesh.
FirstHits == {r \in Rays : Len(r) <= 1}

\* The view machine on the model init() loaded: clicks, arrow keys and the
\* View dropdown, with the history of cycling runs.
NextView ==
  \/ LoadSuccess(1) /\ pc = "model"
  \/ EnvLoaded
  \/ \E ray \in FirstHits : Click(ray) /\ cyc' = CycAfterClick(1)
  \/ \E ray \in FirstHits : ContextMenu(ray) /\ cyc' = CycAfterClick(-1)
  \/ \E dir \in {-1, 1} : KeyArrow(dir) /\ cyc' = CycStep(dir)
  \/ \E name \in Range(viewList) : GuiSetView(name)

SpecView == Init /\ [][NextView]_vars

\* The context transition machine: wheel, context dots, the wipe dropdown
\* and the frames.
NextScroll ==
  \/ LoadSuccess(1) /\ pc = "model"
  \/ EnvLoaded
  \/ TexLoaded
  \/ \E d \in WheelDeltas(scrollPosition) : Wheel(d)
  \/ \E i \in 0..(Len(contexts) - 1) : DotClick(i)
  \/ \E v \in wipeDirections : GuiSelectWipe(v)
  \/ Frame

SpecScroll == Init /\ [][NextScroll]_vars

\* The explode animator: the E key and the frames.  requestAnimationFrame
\* re-arms animate() in every frame, so frames keep coming.
NextExplode ==
  \/ LoadSuccess(1) /\ pc = "model"
  \/ EnvLoaded
  \/ TexLoaded
  \/ KeyExplode
  \/ Frame

SpecExplode == Init /\ [][NextExplode]_vars /\ WF_vars(Frame)

\* Pointer rays of the smoothing machine: none, or the first toggleable mesh.
SmoothRays == {r \in FirstHits : r = <<>> \/ \A i \in ToggleMeshIdx : r[1] <= i}

\* Wheel input of the smoothing machines: half a context forth and back.
SmoothWheel(pos) ==
  IF pos = 0 THEN {PositionScale \div 2} ELSE {-(PositionScale \div 2)}

\* The smoothing machine on the model init() loaded: pointer, key and wheel
\* handlers that set targets, and the frames that move the smoothed values.
NextSmooth ==
  \/ LoadSuccess(1) /\ pc = "model"
  \/ EnvLoaded
  \/ TexLoaded
  \/ \E ray \in SmoothRays : MouseMove(ray)
  \/ \E ray \in SmoothRays \ {<<>>} : Click(ray) /\ UNCHANGED cyc
  \/ KeyArrow(1) /\ viewIndex = 0 /\ UNCHANGED cyc
  \/ ZoomInput
  \/ KeyExplode
  \/ \E d \in SmoothWheel(scrollPosition) : Wheel(d)
  \/ CountedFrame

SpecSmooth == Init /\ [][NextSmooth]_vars

\* The reload machine: model reloads requested one at a time (each may
\* fail) while view, zoom, projection, context position and wipe mode are
\* set and frames run.
NextReload ==
  \/ LoadSuccess(1)
  \/ LoadFail(1)
  \/ EnvLoaded
  \/ TexLoaded
  \/ \E v \in MODEL_PATHS : GuiSelectModel(v) /\ inFlight = <<>>
  \/ KeyArrow(1) /\ viewIndex = 0 /\ UNCHANGED cyc
  \/ ZoomInput
  \/ \E v \in {"Orthographic", "Perspective"} : GuiSwitchCamera(v)
  \/ \E d \in SmoothWheel(scrollPosition) : Wheel(d)
  \/ \E v \in {0, 3} : GuiSelectWipe(v)
  \/ CountedFrame

SpecReload == Init /\ [][NextReload]_vars

\* Annotation cards: marker clicks, the E key, reloads one at a time, a
\* view change, and at most MaxFrames frames, each with any set of the
\* anchors behind the camera.
Descriptors == {hotspotInstances[k].data : k \in 1..Len(hotspotInstances)}

NextCards ==
  \/ LoadSuccess(1)
  \/ LoadFail(1)
  \/ EnvLoaded
  \/ TexLoaded
  \/ \E v \in MODEL_PATHS : GuiSelectModel(v) /\ inFlight = <<>>
  \/ \E d \in Descriptors : MarkerClick(d)
  \/ KeyExplode
  \/ KeyArrow(1) /\ viewIndex = 0 /\ UNCHANGED cyc
  \/ \E behind \in SUBSET (1..Len(hotspotInstances)) : CountedFrameWith(behind)

SpecCards == Init /\ [][NextCards]_vars

\* Overlapping reloads that all succeed: up to MaxInFlight requests in
\* flight, finishing in any order, with the annotation inputs.
NextOverlap ==
  \/ \E k \in 1..MaxInFlight : LoadSuccess(k)
  \/ EnvLoaded
  \/ TexLoaded
  \/ \E v \in MODEL_PATHS : GuiSelectModel(v)
  \/ \E d \in Descriptors : MarkerClick(d)
  \/ KeyExplode

SpecOverlap == Init /\ [][NextOverlap]_vars

\* The annotation resolver applied to every scene of at most MaxProbeNodes
\* nodes named from ProbeNames.
InitProbe ==
  /\ InitProgram
  /\ probe \in {[names |-> s, built |-> FALSE, inst |-> <<>>] :
                  s \in ProbeScenes(MaxProbeNodes)}

SpecHotspots == InitProbe /\ [][BuildProbe]_vars

\* The explode-direction builder applied to every mesh box on the grid,
\* for a model centred at the origin or one step above it, under every
\* parent rotation.
InitDirections ==
  /\ InitProgram
  /\ probe \in {[modelCtr |-> c, box |-> b, parentQ |-> q, built |-> FALSE,
                 direction |-> <<>>, written |-> FALSE] :
                  c \in {<<0, 0, 0>>, <<0, CoordStep, 0>>}, b \in Boxes, q \in Quaternions}

SpecDirections == InitDirections /\ [][BuildDirection]_vars

\* ================================================================ claims
Units ==
  {[kind |-> "indiv", objs |-> <<o>>] : o \in Range(toggleMap.individuals)}
  \cup (IF toggleMap.groupMembers = <<>> THEN {}
        ELSE {[kind |-> "group", objs |-> toggleMap.groupMembers]})

Carries(u) == \E i \in collectMeshes(u.objs) : emissive[i]

\* C1: two successive handled clicks that resolve to the same individual
\* unit, with no event in between, leave every node's visibility flag as it
\* was before the first of the two clicks.
C1_IndividualToggleTwiceRestores ==
  (ev.kind = "click" /\ ev.res = "indiv" /\ ev.before2 # <<>>) => visible = ev.before2

C1_Witness ==
  /\ ev.kind = "click" /\ ev.res = "indiv" /\ ev.before2 # <<>>
  /\ \E i \in DOMAIN visible : ~visible[i]

\* C2: right after a handled click that resolved to the group unit, all
\* group members carry one and the same visibility flag.
C2_GroupToggleUniform ==
  (ev.kind = "click" /\ ev.res = "group") =>
     \A a, b \in Range(toggleMap.groupMembers) : visible[a.n] = visible[b.n]

C2_Witness ==
  /\ ev.kind = "click" /\ ev.res = "group"
  /\ Len(toggleMap.groupMembers) >= 2
  /\ \A a \in Range(toggleMap.groupMembers) : ~visible[a.n]

\* C3 (as stated): a pointer move or a click whose ray meets no toggleable
\* mesh leaves visibility, tint and hovered group exactly as they were.
C3_MissChangesNothing ==
  [][(ev'.kind \in {"mousemove", "click"} /\ ev'.miss)
       => UNCHANGED <<visible, emissive, hoveredGroup>>]_vars

\* C3 (amended): a click whose ray meets no toggleable mesh leaves
\* visibility, tint and hovered group unchanged; a pointer move whose ray
\* meets none leaves visibility unchanged and ends with no hovered group and
\* no tinted node (nothing changes when nothing was hovered).
C3_MissOnlyClearsHover ==
  [][(ev'.kind \in {"mousemove", "click"} /\ ev'.miss)
       => /\ visible' = visible
          /\ ev'.kind = "click" => UNCHANGED <<emissive, hoveredGroup>>
          /\ ev'.kind = "mousemove" =>
               /\ hoveredGroup' = NullGroup
               /\ \A i \in DOMAIN emissive' : ~emissive'[i]
               /\ hoveredGroup = NullGroup => emissive' = emissive]_vars

C3_Witness ==
  /\ ev.kind = "mousemove" /\ ev.miss /\ ev.was = "group"
  /\ \E i \in DOMAIN visible : ~visible[i]

\* C4 (as stated): at most one toggle unit carries the highlight tint, it is
\* the unit recorded in hoveredGroup, and no node is tinted when
\* hoveredGroup is null.
C4_OneTintedUnit ==
  /\ \A u \in Units : Carries(u) => hoveredGroup = u
  /\ hoveredGroup = NullGroup => \A i \in DOMAIN emissive : ~emissive[i]

\* C4 (amended): the tinted meshes of the installed model are exactly the
\* meshes at or below the nodes of hoveredGroup that belong to the installed
\* model; none is tinted when hoveredGroup is null.
C4_TintIsHoveredSubtree ==
  \A i \in DOMAIN emissive : emissive[i] <=> i \in collectMeshes(hoveredGroup.objs)

C4_Witness ==
  /\ hoveredGroup.kind = "group"
  /\ \E u \in Units : u.kind = "indiv" /\ Carries(u)

\* C5: whenever handlers can run, the toggle map, the explode parts and the
\* annotation instances are those built from the installed model and refer
\* to its nodes only.
C5_DerivedFromInstalledModel ==
  HandlersOn =>
    /\ currentModel # NullModel
    /\ \A o \in Range(allToggleable) \cup explodeParts : o.model = currentModel
    /\ \A k \in 1..Len(hotspotInstances) : hotspotInstances[k].object.model = currentModel
    /\ toggleMap = buildToggleMap(currentModel)
    /\ explodeParts = buildExplodeParts(currentModel)
    /\ Len(hotspotInstances) = Len(initHotspots(currentModel))

C5_Witness ==
  /\ HandlersOn /\ ev.kind = "loaded" /\ currentModel.key = "optimized"
  /\ Len(inFlight) = 1

\* C6: the hovered group never holds nodes of a removed model and no
\* handler writes one.
C6_NoStaleReference ==
  /\ \A o \in Range(hoveredGroup.objs) : o.model = currentModel
  /\ ~ev.stale

\* C7: at most one model load is in flight at any time.
C7_OneLoadInFlight == Len(inFlight) <= 1

\* C8: a failed load leaves the installed model, the structures derived
\* from it and all visibility and highlight state as they were.
C8_FailedLoadChangesNothing ==
  [][ev'.kind = "loaderror"
       => /\ Len(inFlight') < Len(inFlight)
          /\ UNCHANGED <<currentModel, guiModel, toggleMap, explodeParts,
                         hotspotInstances, visible, emissive, hoveredGroup>>]_vars

C8_Witness ==
  /\ ev.kind = "loaderror" /\ currentModel # NullModel
  /\ \E i \in DOMAIN visible : ~visible[i]
  /\ hoveredGroup # NullGroup

\* C9: after every failed model load the status area shows the failure.
C9_FailureSurfaced == ev.kind = "loaderror" => statusText = "failed to load"

\* C10: a click or right click that the part toggle handled changes neither
\* the view index, the camera targets nor any annotation.
C10_HandledClickKeepsView ==
  [][(ev'.kind = "click" /\ ev'.handled)
       => UNCHANGED <<viewIndex, targetAzimuth, targetElevation,
                      zoomed, targetFrustum, targetOrbitY, hotspotInstances>>]_vars

C10_Witness ==
  /\ ev.kind = "click" /\ ev.handled
  /\ viewIndex # 0
  /\ \E k \in 1..Len(hotspotInstances) : hotspotInstances[k].open

\* ---------------------------------------------------------------- C11
\* C11: a click whose part-toggle hit test reports unhandled falls through
\* to view cycling: a left click moves the view index forward by one and a
\* right click backward by one, circularly, and the targets are those
\* setView gives the resulting preset.
C11_UnhandledClickCyclesView ==
  [][(ev'.kind = "click" /\ ~ev'.handled)
       => LET n   == Len(viewList)
              idx == (viewIndex + ev'.dir + n) % n
          IN /\ ev'.dir \in {-1, 1}
             /\ viewIndex' = idx
             /\ targetAzimuth' = viewAngles[viewList[idx + 1]]
             /\ targetElevation' = IF viewList[idx + 1] = "Isometric"
                                   THEN ISO_ELEVATION ELSE DEFAULT_ELEVATION]_vars

\* An unhandled right click has wrapped the view from the first preset to
\* the last.
C11_Witness ==
  /\ ev.kind = "click" /\ ~ev.handled /\ ev.dir = -1
  /\ viewIndex = Len(viewList) - 1

\* ---------------------------------------------------------------- C12
\* C12: when a run of as many cycling steps as there are presets, all in
\* one direction (unhandled clicks or arrow keys), is complete, the view
\* index, target azimuth and target elevation are those before its first
\* step.
C12_FullCycleRestoresView ==
  cyc.n = Len(viewList) => cyc.start = <<KeepView>>

\* A complete backward run that ends with an unhandled right click on the
\* elevated preset.
C12_Witness ==
  /\ cyc.n = Len(viewList) /\ cyc.dir = -1
  /\ ev.kind = "click" /\ ~ev.handled
  /\ viewList[viewIndex + 1] = "Isometric"

\* ---------------------------------------------------------------- C13
\* C13: after any wheel events and context-dot jumps the context position
\* is within [0, N-1].
C13_PositionInRange ==
  scrollPosition \in 0..((Len(contexts) - 1) * PositionScale)

\* A wheel event whose delta would pass the last context was clamped.
C13_Witness ==
  /\ ev.kind = "wheel"
  /\ ev.from + ev.delta > (Len(contexts) - 1) * PositionScale
  /\ ev.from > PositionScale
  /\ scrollPosition = (Len(contexts) - 1) * PositionScale

\* ---------------------------------------------------------------- C15
\* C15: the frame that follows a wheel event of exactly SCROLL_PER_CONTEXT
\* pixels from an integer position k < N-1 finds position k+1 and takes the
\* settled path: preset k+1 alone is applied and the full-quality render
\* runs; no offscreen target is rendered and nothing is composited.
C15_OneContextScrollSettles ==
  (/\ ev.kind = "frame" /\ ev.after # <<>>
   /\ ev.after[2] = SCROLL_PER_CONTEXT * PixelFraction
   /\ ev.after[1] % PositionScale = 0
   /\ ev.after[1] \div PositionScale < Len(contexts) - 1)
  => LET k == ev.after[1] \div PositionScale
     IN /\ scrollPosition = (k + 1) * PositionScale
        /\ ev.frame.applied = <<k + 1>>
        /\ ev.frame.full
        /\ ev.frame.rtA = -1 /\ ev.frame.rtB = -1
        /\ ~ev.frame.composite

\* The frame after scrolling 400 px from position 0.
C15_Witness ==
  /\ ev.kind = "frame"
  /\ ev.after = <<0, SCROLL_PER_CONTEXT * PixelFraction>>
  /\ scrollPosition = PositionScale

\* ---------------------------------------------------------------- C16
\* C16 (as claimed): in a frame that finds the position on an integer
\* preset index, fromIdx equals toIdx.
C16_SettledIndicesEqual ==
  (ev.kind = "frame" /\ scrollPosition % PositionScale = 0)
  => ev.frame.fromIdx = ev.frame.toIdx

\* C16 (amended): in a frame that finds the position on an integer preset
\* index k, fromIdx is k, toIdx is min(k + 1, N - 1) and the progress is 0,
\* so the settled path is taken; fromIdx equals toIdx only on the last
\* preset.
C16_SettledIndices ==
  (ev.kind = "frame" /\ scrollPosition % PositionScale = 0)
  => LET k == scrollPosition \div PositionScale
     IN /\ ev.frame.fromIdx = k
        /\ ev.frame.toIdx = (IF k = Len(contexts) - 1 THEN k ELSE k + 1)
        /\ ev.frame.t = 0
        /\ ev.frame.full /\ ~ev.frame.composite
        /\ ev.frame.applied = <<k>>

\* A frame on the last preset, where the two indices coincide.
C16_Witness ==
  /\ ev.kind = "frame"
  /\ scrollPosition = (Len(contexts) - 1) * PositionScale
  /\ ev.frame.fromIdx = ev.frame.toIdx

\* ---------------------------------------------------------------- C17
\* C17: a frame that finds the position more than 0.001 past a preset that
\* is not the last takes the mid-transition path: the preset below is
\* applied and rendered into target A, then the preset above into target
\* B, then both are composited with the fractional progress and the wipe
\* direction; the full-quality render does not run.
C17_MidTransitionComposites ==
  (/\ ev.kind = "frame"
   /\ (scrollPosition % PositionScale) * 1000 > PositionScale)
  => LET k == scrollPosition \div PositionScale
     IN /\ ev.frame.applied = <<k, k + 1>>
        /\ ev.frame.rtA = k /\ ev.frame.rtB = k + 1
        /\ ev.frame.composite
        /\ ev.frame.progress = scrollPosition - k * PositionScale
        /\ ev.frame.direction = wipeDirection
        /\ ~ev.frame.full

\* The frame after scrolling 200 px from position 1, with a wipe direction
\* chosen in the panel.
C17_Witness ==
  /\ ev.kind = "frame"
  /\ ev.after = <<PositionScale, PositionScale \div 2>>
  /\ ev.frame.progress * 2 = PositionScale
  /\ ev.frame.direction = 5

\* ---------------------------------------------------------------- C18
\* C18: for every descriptor and scene, if some node is named exactly as
\* the match token the annotation's target is the first such node in
\* traversal order, also when a node with a longer containing name comes
\* first; a target that merely contains the token is chosen only when no
\* node is named exactly.
C18_ExactMatchFirst ==
  probe.built =>
    \A k \in 1..Len(HOTSPOTS) :
      LET names == probe.names
          exact == {i \in 1..Len(names) : names[i] = HOTSPOTS[k].match}
          mine  == {j \in 1..Len(probe.inst) : probe.inst[j].data = k}
      IN /\ exact # {} =>
              /\ mine # {}
              /\ \A j \in mine : /\ probe.inst[j].n \in exact
                                 /\ \A i \in exact : probe.inst[j].n <= i
         /\ \A j \in mine :
              names[probe.inst[j].n] # HOTSPOTS[k].match => exact = {}

\* A node with a longer containing name precedes the exactly named node,
\* and the annotation is anchored to the latter.
C18_Witness ==
  /\ probe.built
  /\ Len(probe.names) >= 2
  /\ probe.names[1] = HOTSPOTS[1].match \o <<" fan">>
  /\ probe.names[2] = HOTSPOTS[1].match
  /\ \E j \in 1..Len(probe.inst) : probe.inst[j].data = 1 /\ probe.inst[j].n = 2

\* ---------------------------------------------------------------- C19
\* C19: after a build the instances are exactly the descriptors having a
\* node whose name equals or contains the match token, one instance each,
\* in descriptor order, all closed; the other descriptors are omitted.
C19_UnresolvedOmitted ==
  probe.built =>
    LET names    == probe.names
        resolved == {k \in 1..Len(HOTSPOTS) :
                       \E i \in 1..Len(names) : Includes(names[i], HOTSPOTS[k].match)}
    IN /\ Len(probe.inst) = Cardinality(resolved)
       /\ \A j \in 1..Len(probe.inst) :
            /\ probe.inst[j].data \in resolved
            /\ probe.inst[j].n \in 1..Len(names)
            /\ ~probe.inst[j].open
            /\ \A h \in 1..(j - 1) : probe.inst[h].data < probe.inst[j].data

\* Two descriptors resolve and the one between them does not.
C19_Witness ==
  /\ probe.built
  /\ Len(probe.inst) = 2
  /\ probe.inst[1].data = 1 /\ probe.inst[2].data = 3

\* ---------------------------------------------------------------- C20
PartsAt(offset, eps) ==
  \A i \in DOMAIN partOffset :
    Node(currentModel, i) \in explodeParts
      => (partOffset[i] - offset <= eps /\ offset - partOffset[i] <= eps)

AtRest ==
  /\ explodeT <= ExplodeEps /\ explodeT >= -ExplodeEps
  /\ PartsAt(0, explodeOffset(ExplodeEps))

AtFull ==
  /\ ExplodeScale - explodeT <= ExplodeEps /\ explodeT - ExplodeScale <= ExplodeEps
  /\ PartsAt(EXPLODE_DISTANCE, explodeOffset(ExplodeEps))

\* C20: while frames keep coming, if the exploded flag stays false from
\* some frame on, explodeT and every part's displacement end within the
\* grid's resolution of 0 (the original position) and stay there; if it
\* stays true, within the resolution of 1 and of EXPLODE_DISTANCE along
\* the part's direction; whatever toggles came before.
C20_ExplodeConverges ==
  /\ (<>[](pc = "run" /\ ~exploded)) => <>[]AtRest
  /\ (<>[](pc = "run" /\ exploded)) => <>[]AtFull

\* The parts have arrived fully exploded after the flag was toggled back
\* and forth.
C20_Witness ==
  /\ pc = "run" /\ exploded /\ AtFull
  /\ ev.kind = "frame"
  /\ explodeParts # {}
  /\ explodeT > ExplodeScale \div 2

\* C26 (as stated): after a pointer move, no node of the hovered group has
\* its visibility flag false.
C26_HoverNeverHidden ==
  ev.kind = "mousemove" =>
     \A o \in Range(hoveredGroup.objs) : o.model = currentModel => visible[o.n]

\* The parent chain of a node of the installed model, the node included.
ChainOf(i) ==
  {c \in NodeIdx(currentModel) :
     IsSelfOrAncestorIn(SceneOf(currentModel.key).parent, c, i)}

IndividualsOn(i) == {c \in ChainOf(i) : Node(currentModel, c) \in Range(toggleMap.individuals)}

MembersOn(i) == {c \in ChainOf(i) : Node(currentModel, c) \in Range(toggleMap.groupMembers)}

\* C27 (as stated): for every toggleable mesh a click resolves to the first
\* toggle unit reached on the way up from that mesh, and the hover
\* resolution names the same unit.
C27_FirstUnitReachedOwns ==
  \A i \in ToggleMeshIdx :
     LET r == tryTogglePart(<<i>>)
         g == getToggleGroup(Node(currentModel, i))
     IN /\ r.owner = findOwner(Node(currentModel, i), allToggleable)
        /\ g.kind = r.res

\* C27 (amended): for every toggleable mesh a click resolves to the nearest
\* individual on the mesh's parent chain when the chain holds one, also
\* when a group member is reached first, and otherwise to the nearest group
\* member; the hover resolution names the same unit.
C27_IndividualOnChainOwns ==
  \A i \in ToggleMeshIdx :
     LET r == tryTogglePart(<<i>>)
         g == getToggleGroup(Node(currentModel, i))
     IN /\ r.handled
        /\ IndividualsOn(i) # {} =>
             /\ r.res = "indiv"
             /\ r.owner[1].n \in IndividualsOn(i)
             /\ \A c \in IndividualsOn(i) : c \in ChainOf(r.owner[1].n)
             /\ g = [kind |-> "indiv", objs |-> r.owner]
        /\ IndividualsOn(i) = {} =>
             /\ r.res = "group"
             /\ r.owner[1].n \in MembersOn(i)
             /\ \A c \in MembersOn(i) : c \in ChainOf(r.owner[1].n)
             /\ g = [kind |-> "group", objs |-> toggleMap.groupMembers]

\* A click resolved to an individual all of whose meshes lie at or below a
\* group member nested in it, and one resolved to the group.
C27_Witness ==
  /\ ev.kind = "click" /\ ev.res = "indiv"
  /\ MeshesBelow(currentModel, ev.owner[1].n) # {}
  /\ \A i \in MeshesBelow(currentModel, ev.owner[1].n) :
        \E c \in MembersOn(i) : c # ev.owner[1].n /\ ev.owner[1].n \in ChainOf(c)
  /\ \E i \in ToggleMeshIdx : IndividualsOn(i) = {}

\* C28: a click that resolves to a unit whose visibility flag is false is
\* handled and makes the unit visible, and every node outside the resolved
\* unit keeps its flag.
C28_HiddenUnitReselectable ==
  [][(ev'.kind = "click" /\ ev'.res # "none" /\ ~visible[ev'.owner[1].n])
       => /\ ev'.handled
          /\ visible'[ev'.owner[1].n]
          /\ ev'.res = "indiv" =>
               \A i \in DOMAIN visible : i # ev'.owner[1].n => visible'[i] = visible[i]
          /\ ev'.res = "group" =>
               \A i \in DOMAIN visible :
                  IF Node(currentModel, i) \in Range(toggleMap.groupMembers)
                  THEN visible'[i] ELSE visible'[i] = visible[i]]_vars

\* A hidden individual was made visible again while two other toggleable
\* parts stay hidden.
C28_Witness ==
  /\ ev.kind = "click" /\ ev.res = "indiv" /\ ev.handled
  /\ ~ev.before[ev.owner[1].n] /\ visible[ev.owner[1].n]
  /\ \E a, b \in Range(allToggleable) :
        a # b /\ a # ev.owner[1] /\ b # ev.owner[1] /\ ~visible[a.n] /\ ~visible[b.n]

\* C29: a click resolved to an individual flips the flag of that one node
\* and leaves every other node's flag as it was, whatever unit the node is
\* nested in or contains.
C29_IndividualFlipsOneNode ==
  (ev.kind = "click" /\ ev.res = "indiv") =>
     visible = [ev.before EXCEPT ![ev.owner[1].n] = ~ev.before[ev.owner[1].n]]

\* The flipped individual contains a group member whose flag differs from
\* its own afterwards.
C29_Witness ==
  /\ ev.kind = "click" /\ ev.res = "indiv"
  /\ \E c \in DOMAIN visible :
        /\ c # ev.owner[1].n
        /\ ev.owner[1].n \in ChainOf(c)
        /\ Node(currentModel, c) \in Range(toggleMap.groupMembers)
        /\ visible[c] # visible[ev.owner[1].n]

\* C30: right after a handled click hoveredGroup is null and no node
\* carries the highlight tint.
C30_HandledClickClearsHover ==
  (ev.kind = "click" /\ ev.handled) =>
     /\ hoveredGroup = NullGroup
     /\ \A i \in DOMAIN emissive : ~emissive[i]

\* A handled click that found a unit hovered.
C30_Witness ==
  /\ ev.kind = "click" /\ ev.handled /\ ev.was \in {"indiv", "group"}
  /\ ~ev.stale

\* C23: no step other than a frame changes a smoothed value: the current
\* azimuth, elevation, frustum size and orbit height and explodeT are
\* written by the per-frame update only; handlers set targets.
C23_OnlyFramesMoveSmoothed ==
  [][ev'.kind # "frame" => UNCHANGED <<cam, explodeT>>]_vars

\* A zoom input arrived while frustum size, azimuth and explodeT were all
\* under way.
C23_Witness ==
  /\ ev.kind = "zoom"
  /\ cam.frustum \notin {FRUSTUM_DEFAULT * CamScale, FRUSTUM_ZOOMED_CALC * CamScale}
  /\ cam.az # CamTargets.az
  /\ explodeT \notin {0, ExplodeScale}

\* C24: every frame runs the camera update, the explode update, the marker
\* placement and the render of the contexts once each and in this order:
\* camera and explode progress advance by one step from their values before
\* the frame, and the markers are placed from the camera and the part
\* positions the same frame produced.
C24_FrameStepsInOrder ==
  [][ev'.kind = "frame" =>
       /\ ev'.steps = <<"camera", "explode", "hotspots", "render">>
       /\ cam' = updateCamera(cam)
       /\ explodeT' = explodeStep(explodeT, IF exploded THEN ExplodeScale ELSE 0)
       /\ ev'.placed.cam = cam'
       /\ ev'.placed.parts =
            [k \in 1..Len(hotspotInstances) |->
               AnchorSeen(hotspotInstances[k].object, partOffset')]
       /\ ev'.frame = renderFrame(scrollPosition, wipeDirection)]_vars

\* A frame in which the camera and the parts moved, markers were placed on
\* moved parts, and two contexts were composited.
C24_Witness ==
  /\ ev.kind = "frame" /\ frames >= 2
  /\ cam.az # CamTargets.az /\ cam.az # 0
  /\ explodeT \notin {0, ExplodeScale}
  /\ \E k \in 1..Len(hotspotInstances) : ev.placed.parts[k] # {0}
  /\ ev.frame.composite

\* C25: a model reload, successful or failed, leaves the smoothed camera
\* values, their targets, the zoomed flag, the view index, the projection,
\* the context position and the wipe direction unchanged.
C25_ReloadKeepsCameraAndContext ==
  [][ev'.kind \in {"loaded", "loaderror"} =>
       UNCHANGED <<cam, viewVars, zoomVars, cameraType, scrollPosition, wipeDirection>>]_vars

\* A reload finished while the camera was under way in a non-default view,
\* zoomed, in perspective, between two contexts with a non-default wipe.
C25_Witness ==
  /\ ev.kind = "loaded" /\ pc = "run" /\ currentModel.key = "optimized"
  /\ viewIndex # 0 /\ zoomed /\ cameraType = "Perspective"
  /\ scrollPosition # 0 /\ wipeDirection # 0
  /\ cam.az # CamTargets.az /\ cam.frustum # CamTargets.frustum

\* The world-space direction of the probed mesh: the stored direction
\* rotated by the parent's world rotation.
WorldDirection == rotate(probe.direction.v, probe.parentQ)

\* C21 (as stated): the stored direction has a positive vertical component
\* that is not below the clamp 0.05.
C21_StoredVerticalAtLeastClamp ==
  probe.built =>
     /\ probe.direction.v[2] > 0
     /\ (100 * probe.direction.v[2]) * (100 * probe.direction.v[2])
          >= MinUp * MinUp * probe.direction.len2

\* C21 (amended): the stored direction, rotated by the parent's world
\* rotation, is the offset of the mesh's box centre from the model centre
\* with its vertical component raised to at least the clamp, divided by its
\* length; for offsets shorter than one scene unit its vertical component
\* in world space is therefore positive and not below the clamp.
C21_WorldDirectionPointsUp ==
  probe.built =>
     LET delta == subVectors(getCenter(probe.box), probe.modelCtr)
     IN /\ WorldDirection = <<delta[1], Max(delta[2], MinUp), delta[3]>>
        /\ probe.direction.len2 = LengthSq(WorldDirection)
        /\ WorldDirection[2] > 0
        /\ (100 * WorldDirection[2]) * (100 * WorldDirection[2])
             >= MinUp * MinUp * probe.direction.len2

\* A mesh below and beside the model centre under the rotated root: its
\* vertical offset was clamped, and the stored vertical component is
\* negative.
C21_Witness ==
  /\ probe.built /\ probe.parentQ = "x-90"
  /\ subVectors(getCenter(probe.box), probe.modelCtr)[2] < 0
  /\ WorldDirection[2] = MinUp
  /\ probe.direction.v[2] < 0

\* C22: the direction stored for a mesh is finite and not the zero vector,
\* and the position written from it is finite, also when the mesh's box
\* centre is the model centre or the box is empty.
C22_DirectionFiniteNonZero ==
  probe.built =>
     /\ probe.direction.finite
     /\ probe.direction.v # <<0, 0, 0>>
     /\ probe.direction.len2 > 0
     /\ probe.written

\* A mesh with an empty box in a model whose centre is the origin: the
\* offset is the zero vector.
C22_Witness ==
  /\ probe.built /\ probe.box.empty
  /\ subVectors(getCenter(probe.box), probe.modelCtr) = <<0, 0, 0>>
  /\ probe.direction.v # <<0, 0, 0>>

Dist(a, b) == IF a >= b THEN a - b ELSE b - a

Toward(old, new, target, pct) ==
  /\ Dist(target, new) <= Dist(target, old)
  /\ old <= target => (old <= new /\ new <= target)
  /\ old >= target => (old >= new /\ new >= target)
  /\ 2 * Dist(100 * (new - old), pct * (target - old)) <= 100

\* C34: a frame moves each smoothed value toward its target by the fixed
\* fraction of the remaining distance (to the resolution of the grid),
\* never past the target and never away from it; no other step changes a
\* smoothed value; explodeT stays within [0, 1].
C34_SmoothedApproachTargets ==
  [][/\ ev'.kind = "frame" =>
          /\ Toward(cam.az, cam'.az, CamTargets.az, 10)
          /\ Toward(cam.el, cam'.el, CamTargets.el, 8)
          /\ Toward(cam.frustum, cam'.frustum, CamTargets.frustum, 8)
          /\ Toward(cam.orbitY, cam'.orbitY, CamTargets.orbitY, 8)
          /\ Toward(explodeT, explodeT', IF exploded THEN ExplodeScale ELSE 0, 8)
     /\ ev'.kind # "frame" => UNCHANGED <<cam, explodeT>>
     /\ explodeT' \in 0..ExplodeScale]_vars

\* The second of two frames, with frustum size, azimuth and explodeT each
\* strictly between start and target.
C34_Witness ==
  /\ ev.kind = "frame" /\ frames = 2
  /\ zoomed /\ cam.frustum < FRUSTUM_DEFAULT * CamScale /\ cam.frustum > CamTargets.frustum
  /\ cam.az # 0 /\ cam.az # CamTargets.az
  /\ exploded /\ explodeT > 0 /\ explodeT < ExplodeScale

C31_BehindCameraClosesAnnotation ==
  ev.kind = "frame" =>
    \A k \in ev.behind :
      /\ hotspotInstances[k].hidden
      /\ ~hotspotInstances[k].shown
      /\ ~hotspotInstances[k].open

\* C39: after a frame, every instance whose anchor is in front of the
\* camera has its card displayed exactly when its open flag is true.
C39_CardShownIffOpen ==
  ev.kind = "frame" =>
    \A k \in 1..Len(hotspotInstances) :
      k \notin ev.behind => (hotspotInstances[k].shown <=> hotspotInstances[k].open)

\* C32: a click on a marker inverts the open flag of the one instance built
\* for that marker's descriptor, an instance of the installed model, and
\* changes no other instance, no part's visibility or tint, no hover, no
\* toggle or explode classification, and no view, zoom or camera state.
C32_MarkerClickTogglesOwnInstance ==
  [][ev'.kind = "marker" =>
       /\ Len(hotspotInstances') = Len(hotspotInstances)
       /\ Cardinality({k \in 1..Len(hotspotInstances) :
                         hotspotInstances[k].data = ev'.data}) = 1
       /\ \A k \in 1..Len(hotspotInstances) :
            IF hotspotInstances[k].data = ev'.data
            THEN /\ hotspotInstances'[k].open = ~hotspotInstances[k].open
                 /\ hotspotInstances'[k].data = hotspotInstances[k].data
                 /\ hotspotInstances'[k].object = hotspotInstances[k].object
                 /\ hotspotInstances[k].object.model = currentModel
            ELSE hotspotInstances'[k] = hotspotInstances[k]
       /\ UNCHANGED <<currentModel, visible, emissive, hoveredGroup, toggleMap,
                      explodeParts, exploded, viewVars, zoomVars, cam,
                      cameraType, explodeT, partOffset>>]_vars

\* A marker of the model installed by a reload was clicked: its instance
\* is open while another instance of that model stays closed.
C32_Witness ==
  /\ ev.kind = "marker"
  /\ currentModel.id > 1
  /\ \E k \in 1..Len(hotspotInstances) :
       /\ hotspotInstances[k].data = ev.data
       /\ hotspotInstances[k].open
  /\ \E k \in 1..Len(hotspotInstances) :
       hotspotInstances[k].data # ev.data /\ ~hotspotInstances[k].open

\* Number of positions of a sequence that hold x.
Occurrences(seq, x) == Cardinality({k \in 1..Len(seq) : seq[k] = x})

C37_LatestRequestInstalled ==
  (HandlersOn /\ inFlight = <<>>) =>
    /\ currentModel.key = guiSetting
    /\ guiModel \in {NullModel, currentModel}
    /\ toggleMap = buildToggleMap(currentModel)
    /\ explodeParts = buildExplodeParts(currentModel)
    /\ \A k \in 1..Len(hotspotInstances) : hotspotInstances[k].object.model = currentModel

\* C38: no wipe-direction selection in the panel raises an error, and once
\* the panel shows a direction other than the one it starts with (so a
\* selection was made), every frame that composites a transition uses the
\* direction the panel shows.
C38_WipeSelectionAcceptedAndUsed ==
  /\ ev.kind # "wipeerror"
  /\ (ev.kind = "frame" /\ ev.frame.composite /\ guiWipe # 3) =>
       ev.frame.direction = guiWipe

====
